---- MODULE Spec2Model ----
(***************************************************************************)
(* Model of the AI provider gateway (core/ai_engine.py, AIEngine), of the  *)
(* JSON response extractor (cogs/excel_cog.py,                             *)
(* extract_json_from_response), of the Excel engine (core/excel_engine.py, *)
(* ExcelEngine) and of the !buat and !perbaiki commands                    *)
(* (cogs/excel_cog.py, ExcelCog).                                          *)
(*                                                                         *)
(* Gateway: every query runs as an asyncio task on one event loop, so the  *)
(* code between two awaits that really suspend (asyncio.sleep, the         *)
(* provider call) is one atomic step.  Time is counted in whole seconds;   *)
(* a recorded timestamp is kept as its age (now - ts), saturated at the    *)
(* window length, and a sleeping task keeps the seconds it has left.       *)
(***************************************************************************)
EXTENDS Integers, Sequences, FiniteSets, TLC

\* ------------------------------------------------------------------ bounds
\* Concurrent query tasks sharing the one AIEngine.
Tasks == {1, 2}
\* config.AI_RATE_LIMIT (60 requests per minute), scaled down so that the
\* window fills with the calls two queries can make.
AI_RATE_LIMIT == 2
\* The 60 second window of _check_rate_limit, scaled down to whole ticks.
WINDOW == 2
\* Longest response text given to the extractor, in tokens.
MaxTextLen == 4
\* Most rows of a sheet's data grid, and most sheets of a structure.
MaxDataRows == 2
MaxSheets == 2
\* The last second the commands' clock reaches.
MaxClock == 1

\* ------------------------------------------------------- program constants
\* max_retries default of _query_gemini / _query_groq.
MaxRetries == 3
\* config.MAX_EXCEL_ROWS, config.MAX_EXCEL_COLS.
MAX_EXCEL_ROWS == 100000
MAX_EXCEL_COLS == 100
\* config.GEMINI_MODEL, config.GROQ_MODEL: one model name per provider.
GEMINI_MODEL == "gemini-1.5-flash"
GROQ_MODEL == "llama-3.1-70b-versatile"

Providers == {"gemini", "groq"}
\* prefer_provider: unset, or AIProvider.GROQ (AIProvider.GEMINI takes the
\* same branch of query as unset).
PreferValues == {"none", "groq"}
\* What a provider's completion call can raise: any subclass of Exception;
\* "ModelUnavailable" is the error whose text reports a deprecated / not
\* found model.
ErrorKinds == {"Error", "ModelUnavailable"}
\* Raised into the task by asyncio.wait_for when the caller's timeout ends.
CancelledError == "CancelledError"

VARIABLES
    gemini_available,    \* set by _setup_gemini
    groq_available,      \* set by _setup_groq
    request_timestamps,  \* self._request_timestamps, as ages in seconds
    stats,               \* self.stats
    pc,                  \* where each query task stands
    prefer,              \* prefer_provider of the task's query
    provider,            \* the provider the task is querying now
    attempt,             \* loop variable of "for attempt in range(max_retries)"
    sleepLeft,           \* seconds left of the task's asyncio.sleep
    response,            \* query's local "response" (the primary's)
    result,              \* what query returned
    outcome,             \* "pending", "returned" or "raised"
    hist,                \* history of the task's query (observation only)
    text,                \* extractor: response_text
    method,              \* extractor: the method about to be tried, 0 before the call
    tried,               \* extractor: methods attempted so far
    extracted,           \* extractor: outcome of the call
    structure,           \* excel engine: the structure given to create_excel
    upos,                \* excel engine: the sheet create_excel renders next, 0 outside the call
    wb,                  \* excel engine: the Workbook being built (its sheets)
    fs,                  \* the files: path -> workbook file, or NoFile
    created,             \* what create_excel returned or raised
    readResult,          \* what read_excel returned or raised
    fixResult,           \* what fix_excel_errors returned or raised
    cmd,                 \* excel cog: the state of each command run
    temp,                \* temp directory: path -> the file it names, or NoEntry
    inodes,              \* the content of each file written in the temp directory
    clock                \* datetime.now() in whole seconds

gvars == <<gemini_available, groq_available, request_timestamps, stats, pc,
           prefer, provider, attempt, sleepLeft, response, result, outcome, hist>>
evars == <<text, method, tried, extracted>>
xvars == <<structure, upos, wb, fs, created, readResult, fixResult>>
cvars == <<cmd, temp, inodes, clock>>
vars == <<gvars, evars, xvars, cvars>>

Min(a, b) == IF a < b THEN a ELSE b
Max(a, b) == IF a > b THEN a ELSE b
Pow2(n) == IF n = 0 THEN 1 ELSE IF n = 1 THEN 2 ELSE IF n = 2 THEN 4 ELSE 8

\* ---------------------------------------------------------------- gateway
Other(p) == IF p = "gemini" THEN "groq" ELSE "gemini"

\* query: "if prefer_provider == AIProvider.GROQ: primary = groq else gemini".
PrimaryOf(pref) == IF pref = "groq" THEN "groq" ELSE "gemini"
FallbackOf(pref) == Other(PrimaryOf(pref))

Available(p) == IF p = "gemini" THEN gemini_available ELSE groq_available

\* The model name handed to the provider on an attempt: the module constant,
\* whatever the attempt and whatever the previous error was.
ModelFor(p, att, prevKind) == IF p = "gemini" THEN GEMINI_MODEL ELSE GROQ_MODEL

RequestsKey(p) == IF p = "gemini" THEN "gemini_requests" ELSE "groq_requests"
ErrorsKey(p) == IF p = "gemini" THEN "gemini_errors" ELSE "groq_errors"

NoResponse == [success |-> FALSE, provider |-> "none", error |-> <<>>]
\* AIResponse(success=True, content=..., provider=p)
Success(p) == [success |-> TRUE, provider |-> p, error |-> <<>>]
\* AIResponse(success=False, provider=p, error=str(e)); str(e) is the text of
\* the exception of attempt att of provider p.
Failure(p, att) == [success |-> FALSE, provider |-> p, error |-> <<p, "attempt", att>>]
\* AIResponse(success=False, provider=p, error="<P> not available")
NotAvailable(p) == [success |-> FALSE, provider |-> p, error |-> <<p, "not available">>]

\* Variant: the fallback's diagnostic is lost, the primary's is given twice.
BothFailed_FirstOnly(first, second) ==
    [success |-> FALSE, provider |-> "gemini",
     error |-> << <<"Gemini:", first.error>>, <<"Groq:", first.error>> >>]

\* query's last return: f"All providers failed. Gemini: {response.error},
\* Groq: {fallback_response.error}" with provider=AIProvider.GEMINI.
BothFailed(first, second) ==
    [success |-> FALSE, provider |-> "gemini",
     error |-> << <<"Gemini:", first.error>>, <<"Groq:", second.error>> >>]

\* Variant: nothing is ever pruned.
Prune_Nothing(ts) == ts

\* _check_rate_limit: "[ts for ts in self._request_timestamps if now - ts < 60]"
Prune(ts) == SelectSeq(ts, LAMBDA age : age < WINDOW)

\* Variant: ">" in place of ">=".
AtCapacity_OffByOne(ts) == Len(ts) > AI_RATE_LIMIT

\* _check_rate_limit: "if len(self._request_timestamps) >= self._rate_limit:
\* return False", evaluated on the pruned list.
AtCapacity(ts) == Len(ts) >= AI_RATE_LIMIT

\* Variant: the handler names one exception class only.
Catches_OnlyGeneric(exc) == exc = "Error"

\* "except Exception as e": what the handler of a provider attempt catches.
\* asyncio.CancelledError derives from BaseException and is not caught.
Catches(exc) == exc \in ErrorKinds

\* "await asyncio.sleep(2 ** attempt)"
BackoffDelay(att) == Pow2(att)

\* Variant: "attempt < max_retries".
HasRetry_OneMore(att) == att < MaxRetries

\* "if attempt < max_retries - 1": another attempt follows the failed one.
HasRetry(att) == att < MaxRetries - 1

NoHist ==
    [calls |-> [p \in Providers |-> 0],   \* completion calls issued
     slots |-> 0,                         \* timestamps this task appended
     delays |-> [p \in Providers |-> <<>>], \* backoff sleeps requested
     diags |-> <<>>,                      \* texts of the failed attempts
     succ |-> 0,                          \* completion calls that succeeded
     succBy |-> "none",                   \* the provider that succeeded
     lastKind |-> "none",                 \* error of the latest failed attempt
     model |-> "none",                    \* model of the latest call
     fbBase |-> 0,                        \* fallbacks counter without this query's own
     fbDelta |-> -1,                      \* counter at return minus fbBase
     cancelled |-> FALSE]                 \* the caller's timeout fired

GatewayInit ==
    /\ gemini_available \in BOOLEAN
    /\ groq_available \in BOOLEAN
    /\ request_timestamps = <<>>
    /\ stats = [k \in {"gemini_requests", "groq_requests", "gemini_errors",
                       "groq_errors", "fallbacks"} |-> 0]
    /\ pc = [t \in Tasks |-> "idle"]
    /\ prefer = [t \in Tasks |-> "none"]
    /\ provider = [t \in Tasks |-> "none"]
    /\ attempt = [t \in Tasks |-> 0]
    /\ sleepLeft = [t \in Tasks |-> 0]
    /\ response = [t \in Tasks |-> NoResponse]
    /\ result = [t \in Tasks |-> NoResponse]
    /\ outcome = [t \in Tasks |-> "pending"]
    /\ hist = [t \in Tasks |-> NoHist]

ExtractorIdle ==
    /\ text = <<>>
    /\ method = 0
    /\ tried = <<>>
    /\ extracted = [kind |-> "none", value |-> <<>>]

\* The counter as the other running queries see it moved by task t.
BumpOthers(h, t, by) ==
    [u \in Tasks |->
        IF u # t /\ pc[u] \notin {"idle", "done"}
        THEN [h[u] EXCEPT !.fbBase = @ + by]
        ELSE h[u]]

\* query returns value r.
Return(t, r, st, h) ==
    /\ pc' = [pc EXCEPT ![t] = "done"]
    /\ result' = [result EXCEPT ![t] = r]
    /\ outcome' = [outcome EXCEPT ![t] = "returned"]
    /\ stats' = st
    /\ hist' = [h EXCEPT ![t].fbDelta = st["fallbacks"] - h[t].fbBase,
                         ![t].lastKind = "none",
                         ![t].model = "none"]
    /\ attempt' = [attempt EXCEPT ![t] = 0]
    /\ sleepLeft' = [sleepLeft EXCEPT ![t] = 0]
    /\ provider' = [provider EXCEPT ![t] = "none"]
    /\ UNCHANGED response

\* An exception leaves query.
Raise(t, h) ==
    /\ pc' = [pc EXCEPT ![t] = "done"]
    /\ outcome' = [outcome EXCEPT ![t] = "raised"]
    /\ hist' = h
    /\ attempt' = [attempt EXCEPT ![t] = 0]
    /\ sleepLeft' = [sleepLeft EXCEPT ![t] = 0]
    /\ provider' = [provider EXCEPT ![t] = "none"]
    /\ UNCHANGED <<result, response, stats>>

\* How much "self.stats['fallbacks'] += 1" adds.
FallbackStep == 1

\* Variant: "return response" in place of "return fallback_response".
FallbackResult_Primary(primaryResp, fallbackResp) == primaryResp

\* What query returns when the fallback provider succeeded.
FallbackResult(primaryResp, fallbackResp) == fallbackResp

\* query, after a provider's _query_* returned the failed response r
\* (st, h: stats and history as the provider's last step left them).
ProviderFailed(t, r, st, h) ==
    IF provider[t] = PrimaryOf(prefer[t])
    THEN \* "self.stats['fallbacks'] += 1", then the fallback provider
         /\ response' = [response EXCEPT ![t] = r]
         /\ stats' = [st EXCEPT !["fallbacks"] = @ + FallbackStep]
         /\ hist' = BumpOthers([h EXCEPT ![t].lastKind = "none",
                                         ![t].model = "none"], t, FallbackStep)
         /\ provider' = [provider EXCEPT ![t] = FallbackOf(prefer[t])]
         /\ attempt' = [attempt EXCEPT ![t] = 0]
         /\ pc' = [pc EXCEPT ![t] = "enter"]
         /\ UNCHANGED <<result, outcome, sleepLeft>>
    ELSE \* both failed
         Return(t, BothFailed(response[t], r), st, h)

\* Variant: "if response.success: return response" is missing.
ProviderSucceeded_FallbackAnyway(t, r, st, h) == ProviderFailed(t, r, st, h)

\* query, after a provider's _query_* returned the successful response r.
ProviderSucceeded(t, r, st, h) ==
    IF provider[t] = PrimaryOf(prefer[t])
    THEN Return(t, r, st, h)
    ELSE Return(t, FallbackResult(response[t], r), st, h)

\* query(prompt, task_type, prefer_provider): the call, up to the primary's
\* _query_*.
Query(t, pref) ==
    /\ pc[t] = "idle"
    /\ prefer' = [prefer EXCEPT ![t] = pref]
    /\ provider' = [provider EXCEPT ![t] = PrimaryOf(pref)]
    /\ pc' = [pc EXCEPT ![t] = "enter"]
    /\ hist' = [hist EXCEPT ![t].fbBase = stats["fallbacks"]]
    /\ UNCHANGED <<evars, xvars, cvars, gemini_available, groq_available, request_timestamps, stats,
                   attempt, sleepLeft, response, result, outcome>>

\* Variant: the provider is tried without looking at its availability flag.
EnterProvider_Unchecked(t) ==
    /\ pc[t] = "enter"
    /\ pc' = [pc EXCEPT ![t] = "ratecheck"]
    /\ attempt' = [attempt EXCEPT ![t] = 0]
    /\ UNCHANGED <<stats, provider, sleepLeft, response, result, outcome, hist>>
    /\ UNCHANGED <<evars, xvars, cvars, gemini_available, groq_available, request_timestamps, prefer>>

\* _query_gemini / _query_groq: "if not self.<p>_available: return AIResponse(...)".
EnterProvider(t) ==
    /\ pc[t] = "enter"
    /\ IF Available(provider[t])
       THEN /\ pc' = [pc EXCEPT ![t] = "ratecheck"]
            /\ attempt' = [attempt EXCEPT ![t] = 0]
            /\ UNCHANGED <<stats, provider, sleepLeft, response, result, outcome, hist>>
       ELSE ProviderFailed(t, NotAvailable(provider[t]), stats, hist)
    /\ UNCHANGED <<evars, xvars, cvars, gemini_available, groq_available, request_timestamps, prefer>>

\* One pass of "while not await self._check_rate_limit()": prune, check,
\* append; on True the provider's completion call is issued, on False the
\* task sleeps one second.  No await suspends in between.
CheckRateLimit(t) ==
    /\ pc[t] = "ratecheck"
    /\ LET pruned == Prune(request_timestamps) IN
       IF AtCapacity(pruned)
       THEN /\ request_timestamps' = pruned
            /\ pc' = [pc EXCEPT ![t] = "rlsleep"]
            /\ sleepLeft' = [sleepLeft EXCEPT ![t] = 1]
            /\ UNCHANGED hist
       ELSE /\ request_timestamps' = Append(pruned, 0)
            /\ pc' = [pc EXCEPT ![t] = "inflight"]
            /\ hist' = [hist EXCEPT
                            ![t].slots = @ + 1,
                            ![t].calls[provider[t]] = @ + 1,
                            ![t].lastKind = "none",
                            ![t].model = ModelFor(provider[t], attempt[t], hist[t].lastKind)]
            /\ UNCHANGED sleepLeft
    /\ UNCHANGED <<evars, xvars, cvars, gemini_available, groq_available, stats, prefer, provider,
                   attempt, response, result, outcome>>

\* "await asyncio.sleep(1)" of _wait_for_rate_limit is over: check again.
WakeRateLimit(t) ==
    /\ pc[t] = "rlsleep"
    /\ sleepLeft[t] = 0
    /\ pc' = [pc EXCEPT ![t] = "ratecheck"]
    /\ UNCHANGED <<evars, xvars, cvars, gemini_available, groq_available, request_timestamps, stats,
                   prefer, provider, attempt, sleepLeft, response, result,
                   outcome, hist>>

\* The completion call returns text: "self.stats['<p>_requests'] += 1" and
\* the successful AIResponse.
CompleteOk(t) ==
    /\ pc[t] = "inflight"
    /\ ProviderSucceeded(t, Success(provider[t]),
                         [stats EXCEPT ![RequestsKey(provider[t])] = @ + 1],
                         [hist EXCEPT ![t].succ = @ + 1,
                                      ![t].succBy = provider[t]])
    /\ UNCHANGED <<evars, xvars, cvars, gemini_available, groq_available, request_timestamps, prefer>>

\* The completion call raises exc.
CompleteErr(t, exc) ==
    /\ pc[t] = "inflight"
    /\ IF Catches(exc)
       THEN LET st == [stats EXCEPT ![ErrorsKey(provider[t])] = @ + 1]
                h == [hist EXCEPT ![t].diags = Append(@, <<provider[t], "attempt", attempt[t]>>),
                                  ![t].lastKind = exc]
            IN IF HasRetry(attempt[t])
               THEN /\ pc' = [pc EXCEPT ![t] = "backoff"]
                    /\ sleepLeft' = [sleepLeft EXCEPT ![t] = BackoffDelay(attempt[t])]
                    /\ stats' = st
                    /\ hist' = [h EXCEPT ![t].delays[provider[t]] =
                                            Append(@, BackoffDelay(attempt[t]))]
                    /\ UNCHANGED <<provider, attempt, response, result, outcome>>
               ELSE ProviderFailed(t, Failure(provider[t], attempt[t]), st, h)
       ELSE Raise(t, hist)
    /\ UNCHANGED <<evars, xvars, cvars, gemini_available, groq_available, request_timestamps, prefer>>

\* The backoff sleep is over: the next iteration of the for loop.
WakeBackoff(t) ==
    /\ pc[t] = "backoff"
    /\ sleepLeft[t] = 0
    /\ attempt' = [attempt EXCEPT ![t] = @ + 1]
    /\ pc' = [pc EXCEPT ![t] = "ratecheck"]
    /\ UNCHANGED <<evars, xvars, cvars, gemini_available, groq_available, request_timestamps, stats,
                   prefer, provider, sleepLeft, response, result, outcome, hist>>

\* Helpers.run_with_timeout(engine.query(...), timeout): asyncio.wait_for
\* cancels the task at the await it is suspended in; the CancelledError
\* passes every "except Exception" and run_with_timeout re-raises
\* asyncio.TimeoutError to the caller.
Timeout(t) ==
    /\ pc[t] \in {"rlsleep", "inflight", "backoff"}
    /\ IF pc[t] \in {"rlsleep", "inflight"} /\ Catches(CancelledError)
       THEN \* handled as a failed attempt
            LET st == [stats EXCEPT ![ErrorsKey(provider[t])] = @ + 1]
                h == [hist EXCEPT ![t].diags = Append(@, <<provider[t], "attempt", attempt[t]>>),
                                  ![t].lastKind = "Error",
                                  ![t].cancelled = TRUE]
            IN IF HasRetry(attempt[t])
               THEN /\ pc' = [pc EXCEPT ![t] = "backoff"]
                    /\ sleepLeft' = [sleepLeft EXCEPT ![t] = BackoffDelay(attempt[t])]
                    /\ stats' = st
                    /\ hist' = [h EXCEPT ![t].delays[provider[t]] =
                                            Append(@, BackoffDelay(attempt[t]))]
                    /\ UNCHANGED <<provider, attempt, response, result, outcome>>
               ELSE ProviderFailed(t, Failure(provider[t], attempt[t]), st, h)
       ELSE Raise(t, [hist EXCEPT ![t] = [NoHist EXCEPT !.cancelled = TRUE]])
    /\ UNCHANGED <<evars, xvars, cvars, gemini_available, groq_available, request_timestamps, prefer>>

\* One second passes.
Tick ==
    /\ request_timestamps' =
           [i \in DOMAIN request_timestamps |-> Min(request_timestamps[i] + 1, WINDOW)]
    /\ sleepLeft' = [t \in Tasks |-> Max(sleepLeft[t] - 1, 0)]
    /\ UNCHANGED <<evars, xvars, cvars, gemini_available, groq_available, stats, pc, prefer, provider,
                   attempt, response, result, outcome, hist>>

GatewayNext ==
    \/ \E t \in Tasks, pref \in PreferValues : Query(t, pref)
    \/ \E t \in Tasks : EnterProvider(t)
    \/ \E t \in Tasks : CheckRateLimit(t)
    \/ \E t \in Tasks : WakeRateLimit(t)
    \/ \E t \in Tasks : CompleteOk(t)
    \/ \E t \in Tasks, exc \in ErrorKinds : CompleteErr(t, exc)
    \/ \E t \in Tasks : WakeBackoff(t)
    \/ \E t \in Tasks : Timeout(t)
    \/ Tick

\* -------------------------------------------------------------- extractor
(***************************************************************************)
(* A response text is a sequence of tokens: the brackets, "FENCE" for a    *)
(* fence of three backticks, "json" for the word json (the tag when it follows a *)
(* fence directly, prose elsewhere), "v" for a run of JSON text without    *)
(* brackets (scalars with their keys and separators) and " " for a run of  *)
(* whitespace.                                                             *)
(***************************************************************************)
Alphabet == {"{", "}", "[", "]", "FENCE", "json", "v", " "}
ShortTexts == UNION {[1..n -> Alphabet] : n \in 0..MaxTextLen}
\* The opening of a fenced block tagged json, as method 2 looks for it.
TaggedOpen == <<"FENCE", "json">>
\* The response texts: every text within the bound, bare and after the
\* opening of a tagged block.
Texts == ShortTexts \cup {TaggedOpen \o t : t \in ShortTexts}

\* s[a..b], empty when a > b.
Slice(s, a, b) == IF a > b THEN <<>> ELSE SubSeq(s, a, b)

\* str.strip(): leading and trailing whitespace removed.
RECURSIVE StripLeft(_)
StripLeft(s) ==
    IF s # <<>> /\ Head(s) = " " THEN StripLeft(Tail(s)) ELSE s
RECURSIVE StripRight(_)
StripRight(s) ==
    IF s # <<>> /\ s[Len(s)] = " " THEN StripRight(Slice(s, 1, Len(s) - 1)) ELSE s
Strip(s) == StripRight(StripLeft(s))

\* The JSON tokens of s: whitespace between tokens means nothing to json.loads.
Compact(s) == SelectSeq(s, LAMBDA c : c # " ")

\* The index after the JSON value that starts at s[i], 0 if none starts there.
RECURSIVE ValueEnd(_, _)
RECURSIVE ItemsEnd(_, _, _)
ValueEnd(s, i) ==
    IF i > Len(s) THEN 0
    ELSE IF s[i] = "v" THEN i + 1
    ELSE IF s[i] = "{" THEN ItemsEnd(s, i + 1, "}")
    ELSE IF s[i] = "[" THEN ItemsEnd(s, i + 1, "]")
    ELSE 0
ItemsEnd(s, i, close) ==
    IF i > Len(s) THEN 0
    ELSE IF s[i] = close THEN i + 1
    ELSE LET j == ValueEnd(s, i) IN
         IF j = 0 THEN 0 ELSE ItemsEnd(s, j, close)

\* json.loads(s) returns a value (does not raise JSONDecodeError): s is one
\* JSON value, nothing before or after it but whitespace.
Parses(s) == LET c == Compact(s) IN ValueEnd(c, 1) = Len(c) + 1
\* The value json.loads(s) returns.
Loads(s) == Compact(s)

\* Positions of token c in s at or after position from.
Positions(s, c, from) == {i \in DOMAIN s : i >= from /\ s[i] = c}
SetMin(S) == CHOOSE x \in S : \A y \in S : x <= y
SetMax(S) == CHOOSE x \in S : \A y \in S : x >= y

NoMatch == [found |-> FALSE, cand |-> <<>>]
Match(c) == [found |-> TRUE, cand |-> c]

\* re.search(the pattern of method 2, text), then group(1).strip():
\* the leftmost fence followed by the tag, up to the next fence.
TaggedFence(s) ==
    LET opens == {i \in DOMAIN s : s[i] = "FENCE" /\ i + 1 <= Len(s) /\ s[i + 1] = "json"
                                    /\ Positions(s, "FENCE", i + 2) # {}}
    IN IF opens = {} THEN NoMatch
       ELSE LET i == SetMin(opens)
                j == SetMin(Positions(s, "FENCE", i + 2))
            IN Match(Strip(Slice(s, i + 2, j - 1)))

\* re.search(the pattern of method 3, text), then group(1).strip(): the
\* leftmost fence, tagged or not, up to the next fence.
AnyFence(s) ==
    LET opens == {i \in DOMAIN s : s[i] = "FENCE" /\ Positions(s, "FENCE", i + 1) # {}}
    IN IF opens = {} THEN NoMatch
       ELSE LET i == SetMin(opens)
                j == SetMin(Positions(s, "FENCE", i + 1))
            IN Match(Strip(Slice(s, i + 1, j - 1)))

\* re.search(open + r'[\s\S]*' + close, text).group(0): the greedy span from
\* the leftmost open bracket to the last close bracket after it.
GreedySpan(s, open, close) ==
    LET opens == {i \in DOMAIN s : s[i] = open /\ Positions(s, close, i + 1) # {}}
    IN IF opens = {} THEN NoMatch
       ELSE LET i == SetMin(opens)
                j == SetMax(Positions(s, close, i + 1))
            IN Match(Slice(s, i, j))

\* What method m hands to json.loads for the stripped text s.
Candidate(m, s) ==
    CASE m = 1 -> Match(s)
      [] m = 2 -> TaggedFence(s)
      [] m = 3 -> AnyFence(s)
      [] m = 4 -> GreedySpan(s, "{", "}")
      [] m = 5 -> GreedySpan(s, "[", "]")

\* Method m returns a value for the stripped text s.
MethodSucceeds(m, s) == Candidate(m, s).found /\ Parses(Candidate(m, s).cand)
MethodValue(m, s) == Loads(Candidate(m, s).cand)

\* Variant: the array pattern is tried before the object pattern.
MethodOrder_Swapped == <<1, 2, 3, 5, 4>>

\* The order in which extract_json_from_response tries its methods.
MethodOrder == <<1, 2, 3, 4, 5>>

NotExtracted == [kind |-> "none", value |-> <<>>]
ExtractionError == [kind |-> "error", value |-> <<>>]
Extracted(v) == [kind |-> "value", value |-> v]

ExtractInit ==
    /\ text \in Texts
    /\ method = 0
    /\ tried = <<>>
    /\ extracted = NotExtracted

\* extract_json_from_response(response_text): "if not response_text: raise
\* ValueError(...)"; "text = response_text.strip()".
BeginExtract ==
    /\ method = 0
    /\ extracted = NotExtracted
    /\ IF text = <<>>
       THEN /\ extracted' = ExtractionError
            /\ method' = 0
       ELSE /\ method' = 1
            /\ UNCHANGED extracted
    /\ UNCHANGED <<text, tried, gvars, xvars, cvars>>

\* One "try: return json.loads(...) except json.JSONDecodeError: pass" block;
\* after the last one, the final raise ValueError.
TryMethod ==
    /\ method \in DOMAIN MethodOrder
    /\ LET m == MethodOrder[method]
           s == Strip(text)
       IN /\ tried' = Append(tried, m)
          /\ IF MethodSucceeds(m, s)
             THEN /\ extracted' = Extracted(MethodValue(m, s))
                  /\ method' = 0
             ELSE IF method < Len(MethodOrder)
             THEN /\ method' = method + 1
                  /\ UNCHANGED extracted
             ELSE /\ extracted' = ExtractionError
                  /\ method' = 0
    /\ UNCHANGED <<text, gvars, xvars, cvars>>

ExtractNext ==
    \/ BeginExtract
    \/ TryMethod

\* ----------------------------------------------------------- excel engine
\* No file at a path.
NoFile == [exists |-> FALSE, oversize |-> FALSE, active |-> 0, sheets |-> <<>>]

(***************************************************************************)
(* A Python string is a sequence of tokens: "=" for the equals sign, one   *)
(* token per error text, and tokens for runs of other characters.  A       *)
(* Python value keeps its type: None, a number, a string, a datetime (as   *)
(* its serial number) or a dict, which openpyxl cannot store in a cell.    *)
(***************************************************************************)
PyNone == [type |-> "none", num |-> 0, str |-> <<>>]
PyNum(n) == [type |-> "num", num |-> n, str |-> <<>>]
PyStr(t) == [type |-> "str", num |-> 0, str |-> t]
PyDate(n) == [type |-> "datetime", num |-> n, str |-> <<>>]
PyDict == [type |-> "dict", num |-> 0, str |-> <<>>]

\* self.error_types of ExcelEngine.
error_types == <<"#DIV/0!", "#N/A", "#NAME?", "#NULL!", "#NUM!", "#REF!",
                 "#VALUE!", "#GETTING_DATA">>
\* openpyxl.cell.cell.ERROR_CODES: the strings a cell stores with type 'e'.
ERROR_CODES == {"#NULL!", "#DIV/0!", "#VALUE!", "#REF!", "#NAME?", "#NUM!", "#N/A"}

\* value.startswith("=") for a str value.
StartsWithEq(v) == v.type = "str" /\ v.str # <<>> /\ Head(v.str) = "="
\* "value in self.error_types".
IsErrorToken(v) ==
    v.type = "str" /\ Len(v.str) = 1
    /\ \E i \in DOMAIN error_types : v.str[1] = error_types[i]

\* The columns and rows a sheet of the model can hold; a coordinate is a
\* column letter with a row number.
Cols == <<"A", "B">>
Rows == 1..(MaxDataRows + 1)
Addrs == {<<Cols[c], r>> : c \in DOMAIN Cols, r \in Rows}
\* openpyxl.utils.get_column_letter.
get_column_letter(c) == Cols[c]

\* A cell of a worksheet in memory.
EmptyCell ==
    [value |-> PyNone, data_type |-> "n", number_format |-> "General",
     style |-> "plain"]

\* Cell._bind_value raises ValueError("Cannot convert ... to Excel").
CannotConvert(v) == v.type = "dict"

\* Cell._bind_value: the data type openpyxl gives a value. A string of more
\* than one character that starts with "=" is a formula.
DataTypeOf(v) ==
    CASE v.type = "none" -> "n"
      [] v.type = "num" -> "n"
      [] v.type = "datetime" -> "d"
      [] v.type = "str" ->
            IF Len(v.str) > 1 /\ Head(v.str) = "=" THEN "f"
            ELSE IF Len(v.str) = 1 /\ v.str[1] \in ERROR_CODES THEN "e"
            ELSE "s"
      [] OTHER -> "n"

\* "cell.value = v".
SetValue(cell, v) == [cell EXCEPT !.value = v, !.data_type = DataTypeOf(v)]

\* "ws.cell(row, column, value=v)": the value is bound only when it is not
\* None.
CellWithValue(cell, v) == IF v = PyNone THEN cell ELSE SetValue(cell, v)

\* A worksheet: its title and its cells.
NewSheet(title) == [title |-> title, cells |-> [a \in Addrs |-> EmptyCell]]

\* A sheet title: the name asked for and the number openpyxl appended to
\* it, 0 for none.
Title(name, n) == [name |-> name, count |-> n]

\* openpyxl.utils.avoid_duplicate_name: a title already in use gets the
\* next number after the highest in use appended.
avoid_duplicate_name(names, name) ==
    IF \E i \in DOMAIN names : names[i] = Title(name, 0)
    THEN LET counts == {names[i].count : i \in {j \in DOMAIN names : names[j].name = name}}
         IN Title(name, SetMax(counts) + 1)
    ELSE Title(name, 0)

\* The titles of the sheets of a workbook, in order (wb.sheetnames).
sheetnames(sheets) == [i \in DOMAIN sheets |-> sheets[i].title]

\* config.CURRENCY_SYMBOL inside the currency number format.
CurrencyFormat == "\"Rp\" #,##0"
PercentFormat == "0.00%"
DateFormat == "DD/MM/YYYY"

\* _create_sheet, "Add headers": row 1 gets the headers, styled.
RECURSIVE WriteHeaders(_, _, _)
WriteHeaders(cells, headers, c) ==
    IF c > Len(headers) THEN cells
    ELSE LET a == <<get_column_letter(c), 1>>
             cell == [CellWithValue(cells[a], headers[c]) EXCEPT !.style = "header"]
         IN WriteHeaders([cells EXCEPT ![a] = cell], headers, c + 1)

\* _create_sheet, "Add data": start_row is 2 with headers, 1 without.
StartRow(config) == IF config.headers # <<>> THEN 2 ELSE 1

\* The coordinate of data[r][c].
DataAddr(config, r, c) == <<get_column_letter(c), StartRow(config) + r - 1>>

WriteData(cells, config) ==
    [a \in Addrs |->
        IF \E r \in DOMAIN config.data : \E c \in DOMAIN config.data[r] :
              a = DataAddr(config, r, c)
        THEN LET r == a[2] - StartRow(config) + 1
                 c == CHOOSE k \in DOMAIN config.data[r] : get_column_letter(k) = a[1]
             IN CellWithValue(cells[a], config.data[r][c])
        ELSE cells[a]]

\* _create_sheet, "Add additional formulas": "ws[cell_addr] = formula" for
\* the items of the dict in order.
RECURSIVE WriteFormulas(_, _)
WriteFormulas(cells, formulas) ==
    IF formulas = <<>> THEN cells
    ELSE LET a == Head(formulas).addr
         IN WriteFormulas([cells EXCEPT ![a] = SetValue(cells[a], Head(formulas).value)],
                          Tail(formulas))

\* One loop of _apply_formatting: the cells of the listed columns beyond
\* row 1 that hold a value get the number format.
FormatColumns(cells, cols, fmt) ==
    [a \in Addrs |->
        IF (\E i \in DOMAIN cols : cols[i] = a[1]) /\ a[2] > 1 /\ cells[a].value # PyNone
        THEN [cells[a] EXCEPT !.number_format = fmt]
        ELSE cells[a]]

\* _apply_formatting: currency, then percentage, then date columns.
ApplyFormatting(cells, formatting) ==
    FormatColumns(
        FormatColumns(
            FormatColumns(cells, formatting.currency_columns, CurrencyFormat),
            formatting.percentage_columns, PercentFormat),
        formatting.date_columns, DateFormat)

\* _create_sheet raises: openpyxl cannot store one of the values.
CreateSheetRaises(config) ==
    \/ \E c \in DOMAIN config.headers : CannotConvert(config.headers[c])
    \/ \E r \in DOMAIN config.data : \E c \in DOMAIN config.data[r] :
          CannotConvert(config.data[r][c])
    \/ \E i \in DOMAIN config.formulas : CannotConvert(config.formulas[i].value)

\* Variant: the formulas map is written before the headers and the grid.
CreateSheet_FormulasFirst(sheets, config) ==
    LET ws == NewSheet(avoid_duplicate_name(sheetnames(sheets), config.name))
        c1 == WriteFormulas(ws.cells, config.formulas)
        c2 == WriteHeaders(c1, config.headers, 1)
        c3 == WriteData(c2, config)
        c4 == ApplyFormatting(c3, config.formatting)
    IN [ws EXCEPT !.cells = c4]

\* _create_sheet(wb, config): the sheet appended to the workbook.
CreateSheet(sheets, config) ==
    LET ws == NewSheet(avoid_duplicate_name(sheetnames(sheets), config.name))
        c1 == WriteHeaders(ws.cells, config.headers, 1)
        c2 == WriteData(c1, config)
        c3 == WriteFormulas(c2, config.formulas)
        c4 == ApplyFormatting(c3, config.formatting)
    IN [ws EXCEPT !.cells = c4]

\* ------------------------------------------------- workbook files (openpyxl)
\* A cell of a saved workbook: its type attribute, its stored value (for a
\* formula cell the result the authoring application cached, None when the
\* file was written by openpyxl), its formula text without the leading "=",
\* and its style.
AbsentCell ==
    [t |-> "n", v |-> PyNone, formula |-> <<>>, number_format |-> "General",
     style |-> "plain"]

\* The cell writer of wb.save: a formula is written without its "=", a
\* datetime as its serial number; a cell with no value keeps only its style.
SaveCell(cell) ==
    CASE cell.value = PyNone ->
            [AbsentCell EXCEPT !.number_format = cell.number_format,
                               !.style = cell.style]
      [] cell.data_type = "f" ->
            [t |-> "f", v |-> PyNone, formula |-> Tail(cell.value.str),
             number_format |-> cell.number_format, style |-> cell.style]
      [] cell.data_type = "d" ->
            [t |-> "n", v |-> PyNum(cell.value.num), formula |-> <<>>,
             number_format |-> cell.number_format, style |-> cell.style]
      [] OTHER ->
            [t |-> cell.data_type, v |-> cell.value, formula |-> <<>>,
             number_format |-> cell.number_format, style |-> cell.style]

\* openpyxl.styles.numbers.is_date_format.
is_date_format(fmt) == fmt = DateFormat

\* The cell reader of load_workbook(data_only=False): a formula cell is
\* given back as "=" plus its text and its cached result is dropped; a
\* number styled as a date is given back as a datetime.
LoadCell(fc) ==
    CASE fc.t = "f" ->
            [value |-> PyStr(<<"=">> \o fc.formula), data_type |-> "f",
             number_format |-> fc.number_format, style |-> fc.style]
      [] fc.t = "n" /\ fc.v # PyNone /\ is_date_format(fc.number_format) ->
            [value |-> PyDate(fc.v.num), data_type |-> "d",
             number_format |-> fc.number_format, style |-> fc.style]
      [] OTHER ->
            [value |-> fc.v, data_type |-> fc.t,
             number_format |-> fc.number_format, style |-> fc.style]

SaveSheet(ws) == [title |-> ws.title, cells |-> [a \in Addrs |-> SaveCell(ws.cells[a])]]
LoadSheet(fsheet) == [title |-> fsheet.title, cells |-> [a \in Addrs |-> LoadCell(fsheet.cells[a])]]

\* wb.save(path) and load_workbook(path): the sheets in order and the
\* index of the active one.
SaveWorkbook(sheets, active) ==
    [exists |-> TRUE, oversize |-> FALSE, active |-> active,
     sheets |-> [i \in DOMAIN sheets |-> SaveSheet(sheets[i])]]
LoadWorkbook(file) == [i \in DOMAIN file.sheets |-> LoadSheet(file.sheets[i])]

\* A cell the file holds: it has a value, a formula or a style.
Present(cell) ==
    cell.value # PyNone \/ cell.number_format # "General" \/ cell.style # "plain"
ColIndex(letter) == CHOOSE c \in DOMAIN Cols : Cols[c] = letter
\* ws.max_row and ws.max_column: 1 for a sheet without cells.
max_row(ws) == SetMax({1} \cup {a[2] : a \in {x \in Addrs : Present(ws.cells[x])}})
max_column(ws) ==
    SetMax({1} \cup {ColIndex(a[1]) : a \in {x \in Addrs : Present(ws.cells[x])}})

\* ------------------------------------------------------------- read_excel
\* _extract_sheet_data: the values of the sheet row by row, a formula cell
\* as "=" followed by the cell's value.
ExtractCell(cell) ==
    IF cell.value = PyNone THEN PyNone
    ELSE IF cell.data_type = "f" THEN PyStr(<<"=">> \o cell.value.str)
    ELSE cell.value

_extract_sheet_data(ws) ==
    [r \in 1..Min(max_row(ws), MAX_EXCEL_ROWS) |->
        [c \in 1..Min(max_column(ws), MAX_EXCEL_COLS) |->
            ExtractCell(ws.cells[<<get_column_letter(c), r>>])]]

\* _get_error_message: the static table of causes.
_get_error_message(token) ==
    CASE token = "#DIV/0!" -> "Pembagian dengan nol"
      [] token = "#N/A" -> "Nilai tidak tersedia"
      [] token = "#NAME?" -> "Nama fungsi tidak dikenali"
      [] token = "#NULL!" -> "Interseksi range tidak valid"
      [] token = "#NUM!" -> "Nilai numerik tidak valid"
      [] token = "#REF!" -> "Referensi cell tidak valid"
      [] token = "#VALUE!" -> "Tipe data tidak sesuai"
      [] token = "#GETTING_DATA" -> "Mengambil data..."
      [] OTHER -> "Error tidak dikenal"

\* The coordinates in the order ws.iter_rows() visits them: row by row.
AddrSeq ==
    [k \in 1..(Len(Cols) * (MaxDataRows + 1)) |->
        <<Cols[((k - 1) % Len(Cols)) + 1], ((k - 1) \div Len(Cols)) + 1>>]

ExcelError(a, cell) ==
    [cell |-> a,
     error_type |-> cell.value.str[1],
     formula |-> IF cell.data_type = "f" THEN cell.value.str ELSE <<>>,
     message |-> _get_error_message(cell.value.str[1])]

\* Variant: the scan stops at the first error it finds.
_detect_errors_FirstOnly(ws) ==
    LET flagged == SelectSeq(AddrSeq, LAMBDA a : IsErrorToken(ws.cells[a].value))
    IN [i \in DOMAIN flagged \cap {1} |-> ExcelError(flagged[i], ws.cells[flagged[i]])]

\* _detect_errors: one ExcelError per cell whose value is in error_types.
_detect_errors(ws) ==
    LET flagged == SelectSeq(AddrSeq, LAMBDA a : IsErrorToken(ws.cells[a].value))
    IN [i \in DOMAIN flagged |-> ExcelError(flagged[i], ws.cells[flagged[i]])]

\* The scan of one sheet for formulas, from row r on: the cells of a row in
\* column order, leaving the row at the first formula cell and the sheet as
\* soon as has_formulas is set.
RECURSIVE ScanRows(_, _, _)
ScanRows(sheet, r, has_formulas) ==
    IF r > max_row(sheet) THEN has_formulas
    ELSE LET found == has_formulas
                      \/ \E c \in 1..max_column(sheet) :
                            sheet.cells[<<Cols[c], r>>].data_type = "f"
         IN IF found THEN TRUE ELSE ScanRows(sheet, r + 1, found)

\* The loop of _get_workbook_stats over wb.worksheets; acc holds total_rows,
\* total_columns and has_formulas.
RECURSIVE StatsLoop(_, _)
StatsLoop(sheets, acc) ==
    IF sheets = <<>> THEN acc
    ELSE LET sheet == Head(sheets)
         IN StatsLoop(Tail(sheets),
                      [total_rows |-> acc.total_rows + max_row(sheet),
                       total_columns |-> SetMax({acc.total_columns, max_column(sheet)}),
                       has_formulas |-> ScanRows(sheet, 1, acc.has_formulas)])

\* Variant: the sheet with the first formula ends the loop over the sheets.
_get_workbook_stats_StopAtFormula(sheets) ==
    LET withFormula == {i \in DOMAIN sheets : ScanRows(sheets[i], 1, FALSE)}
        last == IF withFormula = {} THEN Len(sheets)
                ELSE CHOOSE i \in withFormula : \A k \in withFormula : i <= k
        acc == StatsLoop(SubSeq(sheets, 1, last),
                         [total_rows |-> 0, total_columns |-> 0, has_formulas |-> FALSE])
    IN [total_sheets |-> Len(sheets), total_rows |-> acc.total_rows,
        total_columns |-> acc.total_columns, has_formulas |-> acc.has_formulas]

\* _get_workbook_stats.
_get_workbook_stats(sheets) ==
    LET acc == StatsLoop(sheets,
                         [total_rows |-> 0, total_columns |-> 0, has_formulas |-> FALSE])
    IN [total_sheets |-> Len(sheets), total_rows |-> acc.total_rows,
        total_columns |-> acc.total_columns, has_formulas |-> acc.has_formulas]

\* What read_excel(path) returns for a file it can load: the sheet read is
\* the active one.
ReadReturn(path, file) ==
    LET sheets == LoadWorkbook(file)
        ws == sheets[file.active]
    IN [kind |-> "returned", exc |-> "none", file_name |-> path,
        sheets |-> sheetnames(sheets),
        active_sheet |-> ws.title,
        data |-> _extract_sheet_data(ws),
        stats |-> _get_workbook_stats(sheets),
        errors |-> _detect_errors(ws)]

\* read_excel raises for a missing file and for one over the size limit;
\* of a raising call only the exception is kept.
ReadRaise(exc) ==
    [kind |-> "raised", exc |-> exc, file_name |-> "none", sheets |-> <<>>, active_sheet |-> Title("", 0),
     data |-> <<>>, stats |-> _get_workbook_stats(<<>>), errors |-> <<>>]

read_excel(path, file) ==
    IF ~file.exists THEN ReadRaise("FileNotFoundError")
    ELSE IF file.oversize THEN ReadRaise("ValueError")
    ELSE ReadReturn(path, file)

\* No call of read_excel made yet.
NoRead == [ReadRaise("none") EXCEPT !.kind = "none"]

\* ------------------------------------------------------- fix_excel_errors
\* The formula _try_fix_error writes: the cell's value inside IFERROR.
Wrapped(v, fallback) == PyStr(<<"=", "IFERROR(">> \o v.str \o <<", ", fallback, ")">>)

\* Variant: the cell's data type is not looked at.
Fixable_AnyCell(cell, error) == error.error_type \in {"#DIV/0!", "#N/A"}

\* _try_fix_error changes the cell: the error is #DIV/0! or #N/A and the
\* cell holds a formula.
Fixable(cell, error) ==
    error.error_type \in {"#DIV/0!", "#N/A"} /\ cell.data_type = "f"

\* _try_fix_error(ws, error): the cells afterwards.
_try_fix_error(cells, error) ==
    LET cell == cells[error.cell]
    IN IF Fixable(cell, error)
       THEN [cells EXCEPT ![error.cell] =
                SetValue(cell, Wrapped(cell.value,
                                       IF error.error_type = "#DIV/0!" THEN "0" ELSE "\"-\""))]
       ELSE cells

\* "for error in errors: if await self._try_fix_error(ws, error): ...".
RECURSIVE FixAll(_, _)
FixAll(cells, errors) ==
    IF errors = <<>> THEN cells
    ELSE FixAll(_try_fix_error(cells, Head(errors)), Tail(errors))

\* The errors of the list that _try_fix_error fixed, counted as the log
\* line of fix_excel_errors reports them.
RECURSIVE FixedCount(_, _)
FixedCount(cells, errors) ==
    IF errors = <<>> THEN 0
    ELSE (IF Fixable(cells[Head(errors).cell], Head(errors)) THEN 1 ELSE 0)
         + FixedCount(_try_fix_error(cells, Head(errors)), Tail(errors))

\* The workbook fix_excel_errors saves: the active sheet of the loaded
\* file with the fixes applied, the other sheets as loaded.
FixedWorkbook(file, errors) ==
    LET sheets == LoadWorkbook(file)
    IN [sheets EXCEPT ![file.active].cells = FixAll(@, errors)]

\* What fix_excel_errors(source, auto_fix) gave: the returned path and
\* errors, with the count its log line reports.
FixResult(source, auto_fix, kind, path, errors, n) ==
    [source |-> source, auto_fix |-> auto_fix, kind |-> kind, path |-> path,
     errors |-> errors, fixed_count |-> n]

\* ------------------------------------------------------ inputs and actions
Paths == {"upload", "excel", "fixed"}

NoFormatting == [currency_columns |-> <<>>, percentage_columns |-> <<>>, date_columns |-> <<>>]
SheetConfig(name, headers, data, formulas, formatting) ==
    [name |-> name, headers |-> headers, data |-> data, formulas |-> formulas,
     formatting |-> formatting]

\* The values of the cells of the structures: None, a number, a text, a
\* formula, the lone equals sign, an error text, and a value json.loads can
\* give that a cell cannot take.
GridFormula == PyStr(<<"=", "A1/B1">>)
MapFormula == PyStr(<<"=", "SUM(A:A)">>)
GridValues ==
    {PyNone, PyNum(1), PyStr(<<"x">>), GridFormula, PyStr(<<"=">>),
     PyStr(<<"#DIV/0!">>), PyDict}
\* The first row of a grid takes every value, in one column or two; the
\* rows after it are one cell wide.
GridRows == {<<v>> : v \in GridValues} \cup {<<PyNum(1), PyNum(2)>>}
TailRows == {<<PyNone>>, <<PyNum(1)>>, <<GridFormula>>, <<PyDict>>}
Grids ==
    {<<>>} \cup {<<r>> \o t : r \in GridRows,
                             t \in UNION {[1..n -> TailRows] : n \in 0..(MaxDataRows - 1)}}
HeaderRows == {<<>>, <<PyStr(<<"h">>)>>}
FormulaMaps ==
    {<<>>} \cup {<<[addr |-> a, value |-> MapFormula]>> : a \in {<<"A", 1>>, <<"A", 2>>, <<"B", 1>>}}
Formattings ==
    {NoFormatting,
     [NoFormatting EXCEPT !.currency_columns = <<"A">>],
     [NoFormatting EXCEPT !.percentage_columns = <<"A">>],
     [NoFormatting EXCEPT !.date_columns = <<"A">>]}

\* Structures of one sheet in every detail, and structures of several
\* plain sheets; "sheets" may be missing from the structure.
RichSheets ==
    {SheetConfig("S", h, d, f, fmt) :
        h \in HeaderRows, d \in Grids, f \in FormulaMaps, fmt \in Formattings}
PlainSheets ==
    {SheetConfig(n, <<>>, <<<<v>>>>, <<>>, NoFormatting) :
        n \in {"S", "T"}, v \in {PyNum(1), PyStr(<<"#DIV/0!">>), PyDict}}
Structure(sheets) == [has_sheets |-> TRUE, sheets |-> sheets]
NoSheetsKey == [has_sheets |-> FALSE, sheets |-> <<>>]
Structures ==
    {NoSheetsKey}
    \cup {Structure(<<sh>>) : sh \in RichSheets}
    \cup UNION {{Structure(q) : q \in [1..n -> PlainSheets]} : n \in 0..MaxSheets}

\* structure.get("sheets", []).
SheetsOf(st) == IF st.has_sheets THEN st.sheets ELSE <<>>

\* Workbooks a user uploads, written by a spreadsheet application: formula
\* cells carry the result the application cached.
FormulaCell(expr, cached) ==
    [AbsentCell EXCEPT !.t = "f", !.formula = expr, !.v = cached]
LiteralCell(t, v) == [AbsentCell EXCEPT !.t = t, !.v = v]
UploadCells ==
    {AbsentCell,
     FormulaCell(<<"A1/B1">>, PyStr(<<"#DIV/0!">>)),
     FormulaCell(<<"VLOOKUP(A1,B:B,1,0)">>, PyStr(<<"#N/A">>)),
     FormulaCell(<<"A1+B1">>, PyStr(<<"#REF!">>)),
     FormulaCell(<<"A1+B1">>, PyNum(1)),
     LiteralCell("e", PyStr(<<"#DIV/0!">>)),
     LiteralCell("e", PyStr(<<"#N/A">>)),
     LiteralCell("e", PyStr(<<"#REF!">>)),
     LiteralCell("e", PyStr(<<"#NAME?">>)),
     LiteralCell("e", PyStr(<<"#NULL!">>)),
     LiteralCell("e", PyStr(<<"#NUM!">>)),
     LiteralCell("e", PyStr(<<"#VALUE!">>)),
     LiteralCell("s", PyStr(<<"#GETTING_DATA">>)),
     LiteralCell("s", PyStr(<<"#div/0!">>)),
     LiteralCell("n", PyNum(1))}
UploadSheet(name, c1, c2) ==
    [title |-> Title(name, 0),
     cells |-> [a \in Addrs |-> IF a = <<"A", 1>> THEN c1
                                ELSE IF a = <<"A", 2>> THEN c2 ELSE AbsentCell]]
SecondSheets ==
    {UploadSheet("T", c, AbsentCell) :
        c \in {LiteralCell("n", PyNum(1)), LiteralCell("e", PyStr(<<"#DIV/0!">>)),
               FormulaCell(<<"A1/B1">>, PyStr(<<"#DIV/0!">>))}}
    \cup {[UploadSheet("T", AbsentCell, AbsentCell)
              EXCEPT !.cells[<<"B", 2>>] = LiteralCell("n", PyNum(1))]}
UploadFile(sheets, active, oversize) ==
    [exists |-> TRUE, oversize |-> oversize, active |-> active, sheets |-> sheets]
UploadFiles ==
    {UploadFile(<<UploadSheet("S", c1, c2)>>, 1, FALSE) : c1 \in UploadCells, c2 \in UploadCells}
    \cup {UploadFile(<<UploadSheet("S", c1, AbsentCell), s2>>, k, FALSE) :
             c1 \in UploadCells, s2 \in SecondSheets, k \in 1..2}
    \cup {UploadFile(<<UploadSheet("S", AbsentCell, AbsentCell)>>, 1, TRUE)}

Created(kind, path) == [kind |-> kind, path |-> path]

\* The engine before any call, with nothing in its temp directory.
ExcelIdle ==
    /\ structure = NoSheetsKey
    /\ upos = 0
    /\ wb = <<>>
    /\ fs = [p \in Paths |-> NoFile]
    /\ created = Created("none", "none")
    /\ readResult = NoRead
    /\ fixResult = FixResult("none", FALSE, "none", "none", <<>>, 0)

\* The create path starts from a structure, the fix path from an upload.
ExcelInit ==
    /\ upos = 0
    /\ wb = <<>>
    /\ created = Created("none", "none")
    /\ readResult = NoRead
    /\ fixResult = FixResult("none", FALSE, "none", "none", <<>>, 0)
    /\ \/ /\ structure \in Structures
          /\ fs = [p \in Paths |-> NoFile]
       \/ /\ structure = NoSheetsKey
          /\ \E f \in UploadFiles : fs = [p \in Paths |-> IF p = "upload" THEN f ELSE NoFile]

\* create_excel(structure), up to the loop over the sheets: a new Workbook
\* without its default sheet; ValueError when there are no sheets.
CreateBegin ==
    /\ upos = 0
    /\ created.kind = "none"
    /\ wb' = <<>>
    /\ IF SheetsOf(structure) = <<>>
       THEN /\ created' = Created("raised", "none")
            /\ upos' = 0
       ELSE /\ upos' = 1
            /\ UNCHANGED created
    /\ UNCHANGED <<structure, fs, readResult, fixResult, gvars, evars, cvars>>

\* Variant: a sheet that fails to render is left out and the loop goes on.
Rendered_SkipFailing(sheets, config) ==
    [raised |-> FALSE,
     sheets |-> IF CreateSheetRaises(config) THEN sheets
                ELSE Append(sheets, CreateSheet(sheets, config))]

\* "await self._create_sheet(wb, sheet_config)" inside the try of
\* create_excel: the sheet is added, or the exception leaves the loop.
Rendered(sheets, config) ==
    IF CreateSheetRaises(config)
    THEN [raised |-> TRUE, sheets |-> <<>>]
    ELSE [raised |-> FALSE, sheets |-> Append(sheets, CreateSheet(sheets, config))]

\* One turn of "for sheet_config in sheets_data".
RenderSheet ==
    /\ upos \in DOMAIN SheetsOf(structure)
    /\ LET r == Rendered(wb, SheetsOf(structure)[upos])
       IN /\ wb' = r.sheets
          /\ IF r.raised
             THEN /\ created' = Created("raised", "none")
                  /\ upos' = 0
             ELSE /\ upos' = upos + 1
                  /\ UNCHANGED created
    /\ UNCHANGED <<structure, fs, readResult, fixResult, gvars, evars, cvars>>

\* "wb.save(output_path); wb.close(); return output_path" after the loop.
SaveCreated ==
    /\ upos = Len(SheetsOf(structure)) + 1
    /\ fs' = [fs EXCEPT !["excel"] = SaveWorkbook(wb, 1)]
    /\ created' = Created("returned", "excel")
    /\ wb' = <<>>
    /\ upos' = 0
    /\ UNCHANGED <<structure, readResult, fixResult, gvars, evars, cvars>>

\* read_excel(path).
ReadExcel(path) ==
    /\ upos = 0
    /\ readResult' = read_excel(path, fs[path])
    /\ UNCHANGED <<structure, upos, wb, fs, created, fixResult, gvars, evars, cvars>>

\* Variant: the repaired workbook is saved over the file that was read.
FixExcelErrors_InPlace(path, auto_fix) ==
    /\ upos = 0
    /\ UNCHANGED <<structure, upos, wb, created, readResult, gvars, evars, cvars>>
    /\ LET r == read_excel(path, fs[path])
       IN IF r.kind = "raised"
          THEN /\ fixResult' = FixResult("none", FALSE, "raised", "none", <<>>, 0)
               /\ UNCHANGED fs
          ELSE IF r.errors = <<>> \/ ~auto_fix
          THEN /\ fixResult' = FixResult(path, auto_fix, "returned", path,
                                         IF r.errors = <<>> THEN <<>> ELSE r.errors, 0)
               /\ UNCHANGED fs
          ELSE /\ fs' = [fs EXCEPT ![path] =
                            SaveWorkbook(FixedWorkbook(fs[path], r.errors), fs[path].active)]
               /\ fixResult' =
                     FixResult(path, auto_fix, "returned", path, r.errors,
                               FixedCount(LoadWorkbook(fs[path])[fs[path].active].cells,
                                          r.errors))

\* fix_excel_errors(path, auto_fix).
FixExcelErrors(path, auto_fix) ==
    /\ upos = 0
    /\ UNCHANGED <<structure, upos, wb, created, readResult, gvars, evars, cvars>>
    /\ LET r == read_excel(path, fs[path])
       IN IF r.kind = "raised"
          THEN /\ fixResult' = FixResult("none", FALSE, "raised", "none", <<>>, 0)
               /\ UNCHANGED fs
          ELSE IF r.errors = <<>>
          THEN /\ fixResult' = FixResult(path, auto_fix, "returned", path, <<>>, 0)
               /\ UNCHANGED fs
          ELSE IF ~auto_fix
          THEN /\ fixResult' = FixResult(path, auto_fix, "returned", path, r.errors, 0)
               /\ UNCHANGED fs
          ELSE /\ fs' = [fs EXCEPT !["fixed"] =
                            SaveWorkbook(FixedWorkbook(fs[path], r.errors), fs[path].active)]
               /\ fixResult' =
                     FixResult(path, auto_fix, "returned", "fixed", r.errors,
                               FixedCount(LoadWorkbook(fs[path])[fs[path].active].cells,
                                          r.errors))

ExcelNext ==
    \/ CreateBegin
    \/ RenderSheet
    \/ SaveCreated
    \/ \E path \in Paths : ReadExcel(path)
    \/ \E path \in Paths, auto_fix \in BOOLEAN : FixExcelErrors(path, auto_fix)

\* -------------------------------------------------------------- excel cog
(***************************************************************************)
(* The !buat and !perbaiki commands (cogs/excel_cog.py).  Every command    *)
(* invocation is a task on the one event loop; the steps below are the     *)
(* stretches of a handler between two awaits that really suspend (the AI   *)
(* query, the attachment download, the Discord calls, the usage log).  A   *)
(* file of the temp directory is a directory entry naming an inode: a save *)
(* over an existing path rewrites the inode in place, a delete removes the *)
(* entry only, and an open discord.File reads the inode when it is sent.   *)
(***************************************************************************)
\* Command invocations running on the bot.
Runs == {1, 2}
\* attachment.filename of the uploads, after _sanitize_filename.
Filenames == {"a.xlsx", "b.xlsx"}

\* A path of the temp directory: <prefix>_<timestamp>.xlsx of the engine, or
\* fix/<timestamp>_<filename> of download_attachment.
TempPath(prefix, ts, name) == [dir |-> prefix, ts |-> ts, name |-> name]
NoPath == TempPath("none", 0, "none")
TempPaths ==
    {TempPath(d, ts, "xlsx") : d \in {"excel", "fixed"}, ts \in 0..MaxClock}
    \cup {TempPath("fix", ts, n) : ts \in 0..MaxClock, n \in Filenames}

\* The inodes: a run creates at most two files.
Inos == Runs \X {1, 2}
NoEntry == <<0, 0>>

\* What a file holds: a workbook built from a structure, an upload, or the
\* repaired copy of an upload; "by" is the run whose data it is.
Content(what, by, errors) == [what |-> what, by |-> by, errors |-> errors]
NoContent == Content("none", 0, FALSE)
\* fix_excel_errors' output for a source with errors: the source's workbook
\* saved again.
FixedCopy(c) == Content("fixed", c.by, c.errors)

\* What extract_json_from_response makes of the AI's text: it raises
\* ValueError ("unparsable"), or returns a dict with a non-empty "sheets"
\* list of sheets that can be written ("structure") or that hold a value no
\* cell takes ("unbuildable"), a dict with "sheets": [] ("no_sheets"), a dict
\* without "sheets" ("sheet"), a list, or a number.
ParsedValues ==
    {"unparsable", "structure", "unbuildable", "no_sheets", "sheet", "list", "number"}

\* create_default_structure(description).
create_default_structure == "default"

\* Lines 134-144 of create_excel: the structure handed to the engine, or the
\* exception the validation raises.
Validated(parsed) ==
    IF parsed = "unparsable" THEN [exc |-> "none", structure |-> create_default_structure]
    ELSE IF parsed = "number" THEN [exc |-> "TypeError", structure |-> "none"]
    ELSE IF parsed \in {"structure", "unbuildable", "no_sheets"}
    THEN [exc |-> "none", structure |-> parsed]
    ELSE IF parsed = "sheet" THEN [exc |-> "none", structure |-> "wrapped"]
    ELSE [exc |-> "none", structure |-> create_default_structure]

\* excel_engine.create_excel raises for this structure.
BuildRaises(st) == st \in {"no_sheets", "unbuildable"}

NoRun ==
    [kind |-> "none", pc |-> "idle", ai |-> "none", parsed |-> "none",
     structure |-> "none", upload |-> NoContent, file_path |-> NoPath,
     fixed_path |-> NoPath, handle |-> NoEntry, narr |-> "none",
     suggestions |-> FALSE, outcome |-> "none", exc |-> "none",
     sent |-> NoContent, trace |-> <<>>]

CogIdle ==
    /\ cmd = [r \in Runs |-> NoRun]
    /\ temp = [p \in TempPaths |-> NoEntry]
    /\ inodes = [i \in Inos |-> NoContent]
    /\ clock = 0

\* "except Exception as e": the handler sends the error embed.
Failed(run, exc) == [run EXCEPT !.pc = "done", !.outcome = "error", !.exc = exc]

\* The inode a save to path by run r ends in: the one the path names, or a
\* new one (the k-th file the run creates).
Target(path, r, k) == IF temp[path] = NoEntry THEN <<r, k>> ELSE temp[path]

\* A save of content c to path by run r.
SaveFile(path, r, k, c) ==
    /\ temp' = [temp EXCEPT ![path] = Target(path, r, k)]
    /\ inodes' = [inodes EXCEPT ![Target(path, r, k)] = c]

\* file_handler.delete_file for each of the paths: "if file_path.exists():
\* file_path.unlink()".
DeleteFiles(paths) ==
    /\ temp' = [p \in TempPaths |-> IF p \in paths THEN NoEntry ELSE temp[p]]
    /\ UNCHANGED inodes

\* !buat: the command starts and awaits create_excel_structure.
CreateCommand(r) ==
    /\ cmd[r].pc = "idle"
    /\ cmd' = [cmd EXCEPT ![r] = [NoRun EXCEPT !.kind = "create", !.pc = "prompting",
                                               !.trace = <<"PROMPT">>]]
    /\ UNCHANGED <<temp, inodes, clock, gvars, evars, xvars>>

\* !buat, lines 125-178: the AI's response is back; extraction, validation,
\* excel_engine.create_excel, get_file_info and create_discord_file follow
\* without a suspension.
CreateStructure(r, ai_ok, parsed) ==
    /\ cmd[r].kind = "create"
    /\ cmd[r].pc = "prompting"
    /\ LET run == [cmd[r] EXCEPT !.ai = IF ai_ok THEN "ok" ELSE "failed"]
           v == Validated(parsed)
           parsedRun == [run EXCEPT !.parsed = parsed, !.trace = Append(@, "EXTRACT")]
           building == [parsedRun EXCEPT !.structure = v.structure,
                                          !.trace = Append(@, "BUILD")]
           path == TempPath("excel", clock, "xlsx")
       IN IF ~ai_ok
          THEN /\ cmd' = [cmd EXCEPT ![r] = Failed(run, "AIError")]
               /\ UNCHANGED <<temp, inodes>>
          ELSE IF v.exc # "none"
          THEN /\ cmd' = [cmd EXCEPT ![r] = Failed(parsedRun, v.exc)]
               /\ UNCHANGED <<temp, inodes>>
          ELSE IF BuildRaises(v.structure)
          THEN /\ cmd' = [cmd EXCEPT ![r] = Failed(building, "ValueError")]
               /\ UNCHANGED <<temp, inodes>>
          ELSE /\ SaveFile(path, r, 1, Content(v.structure, r, FALSE))
               /\ cmd' = [cmd EXCEPT ![r] = [building EXCEPT !.file_path = path,
                                                             !.handle = Target(path, r, 1),
                                                             !.pc = "ready"]]
    /\ UNCHANGED <<clock, gvars, evars, xvars>>

\* "await loading.delete(); await ctx.send(embed=embed, file=discord_file)":
\* the file object is read now; a Discord call can raise.
Deliver(r, ok) ==
    /\ cmd[r].pc = "ready"
    /\ LET run == [cmd[r] EXCEPT !.trace = Append(@, "DELIVER")]
       IN cmd' = [cmd EXCEPT ![r] =
                     IF ok THEN [run EXCEPT !.pc = "delivered", !.sent = inodes[run.handle]]
                     ELSE Failed(run, "HTTPException")]
    /\ UNCHANGED <<temp, inodes, clock, gvars, evars, xvars>>

\* "await self.bot.log_usage(...)" is over (it raises nothing): the cleanup
\* lines delete the run's files.
Purge(r) ==
    /\ cmd[r].pc = "delivered"
    /\ DeleteFiles({cmd[r].file_path, cmd[r].fixed_path})
    /\ cmd' = [cmd EXCEPT ![r].pc = "done", ![r].outcome = "delivered",
                          ![r].trace = Append(@, "PURGE")]
    /\ UNCHANGED <<clock, gvars, evars, xvars>>

\* !perbaiki with an Excel attachment: download_attachment names the file
\* and awaits attachment.save.
FixCommand(r, name, has_errors) ==
    /\ cmd[r].pc = "idle"
    /\ cmd' = [cmd EXCEPT ![r] = [NoRun EXCEPT !.kind = "fix", !.pc = "download",
                                               !.upload = Content("upload", r, has_errors),
                                               !.file_path = TempPath("fix", clock, name)]]
    /\ UNCHANGED <<temp, inodes, clock, gvars, evars, xvars>>

\* attachment.save is over; read_excel follows without a suspension.
Download(r, ok) ==
    /\ cmd[r].pc = "download"
    /\ IF ok
       THEN /\ SaveFile(cmd[r].file_path, r, 1, cmd[r].upload)
            /\ cmd' = [cmd EXCEPT ![r].trace = Append(@, "INSPECT"),
                                  ![r].pc = IF cmd[r].upload.errors THEN "narrative"
                                            ELSE "clean"]
       ELSE /\ cmd' = [cmd EXCEPT ![r] = Failed(@, "HTTPException")]
            /\ UNCHANGED <<temp, inodes>>
    /\ UNCHANGED <<clock, gvars, evars, xvars>>

\* !perbaiki, lines 242-263: no error was found; the embed is sent and the
\* download deleted.
NoErrors(r, ok) ==
    /\ cmd[r].pc = "clean"
    /\ IF ok
       THEN /\ DeleteFiles({cmd[r].file_path})
            /\ cmd' = [cmd EXCEPT ![r].pc = "done", ![r].outcome = "no_errors",
                                  ![r].trace = Append(@, "PURGE")]
       ELSE /\ cmd' = [cmd EXCEPT ![r] = Failed(@, "HTTPException")]
            /\ UNCHANGED <<temp, inodes>>
    /\ UNCHANGED <<clock, gvars, evars, xvars>>

\* Variant: a failed narrative raises, as a failed response does in !buat.
Narrative_Required(r, ok) ==
    /\ cmd[r].pc = "narrative"
    /\ LET run == [cmd[r] EXCEPT !.narr = IF ok THEN "ok" ELSE "failed",
                                 !.trace = Append(@, "REPAIR")]
           source == inodes[temp[run.file_path]]
           out == TempPath("fixed", clock, "xlsx")
       IN IF ~ok
          THEN /\ cmd' = [cmd EXCEPT ![r] = Failed(run, "AIError")]
               /\ UNCHANGED <<temp, inodes>>
          ELSE IF temp[run.file_path] = NoEntry
          THEN /\ cmd' = [cmd EXCEPT ![r] = Failed(run, "FileNotFoundError")]
               /\ UNCHANGED <<temp, inodes>>
          ELSE IF ~source.errors
          THEN /\ cmd' = [cmd EXCEPT ![r] = [run EXCEPT !.fixed_path = run.file_path,
                                                        !.handle = temp[run.file_path],
                                                        !.suggestions = ok,
                                                        !.pc = "ready"]]
               /\ UNCHANGED <<temp, inodes>>
          ELSE /\ SaveFile(out, r, 2, FixedCopy(source))
               /\ cmd' = [cmd EXCEPT ![r] = [run EXCEPT !.fixed_path = out,
                                                        !.handle = Target(out, r, 2),
                                                        !.suggestions = ok,
                                                        !.pc = "ready"]]
    /\ UNCHANGED <<clock, gvars, evars, xvars>>

\* !perbaiki, lines 280-314: ai_engine.fix_excel_errors is back, with or
\* without success; excel_engine.fix_excel_errors and create_discord_file
\* follow without a suspension.
Narrative(r, ok) ==
    /\ cmd[r].pc = "narrative"
    /\ LET run == [cmd[r] EXCEPT !.narr = IF ok THEN "ok" ELSE "failed",
                                 !.trace = Append(@, "REPAIR")]
           source == inodes[temp[run.file_path]]
           out == TempPath("fixed", clock, "xlsx")
       IN IF temp[run.file_path] = NoEntry
          THEN /\ cmd' = [cmd EXCEPT ![r] = Failed(run, "FileNotFoundError")]
               /\ UNCHANGED <<temp, inodes>>
          ELSE IF ~source.errors
          THEN /\ cmd' = [cmd EXCEPT ![r] = [run EXCEPT !.fixed_path = run.file_path,
                                                        !.handle = temp[run.file_path],
                                                        !.suggestions = ok,
                                                        !.pc = "ready"]]
               /\ UNCHANGED <<temp, inodes>>
          ELSE /\ SaveFile(out, r, 2, FixedCopy(source))
               /\ cmd' = [cmd EXCEPT ![r] = [run EXCEPT !.fixed_path = out,
                                                        !.handle = Target(out, r, 2),
                                                        !.suggestions = ok,
                                                        !.pc = "ready"]]
    /\ UNCHANGED <<clock, gvars, evars, xvars>>

\* One second passes on the bot's clock.
ClockTick ==
    /\ clock < MaxClock
    /\ clock' = clock + 1
    /\ UNCHANGED <<cmd, temp, inodes, gvars, evars, xvars>>

CogNext ==
    \/ \E r \in Runs : CreateCommand(r)
    \/ \E r \in Runs, ai_ok \in BOOLEAN, parsed \in ParsedValues : CreateStructure(r, ai_ok, parsed)
    \/ \E r \in Runs, ok \in BOOLEAN : Deliver(r, ok)
    \/ \E r \in Runs : Purge(r)
    \/ \E r \in Runs, name \in Filenames, has_errors \in BOOLEAN : FixCommand(r, name, has_errors)
    \/ \E r \in Runs, ok \in BOOLEAN : Download(r, ok)
    \/ \E r \in Runs, ok \in BOOLEAN : NoErrors(r, ok)
    \/ \E r \in Runs, ok \in BOOLEAN : Narrative(r, ok)
    \/ ClockTick

\* The gateway while only the extractor is exercised.
GatewayQuiet == GatewayInit /\ gemini_available /\ groq_available

Init == GatewayInit /\ ExtractorIdle /\ ExcelIdle /\ CogIdle
Next == GatewayNext
Spec == Init /\ [][Next]_vars

\* The gateway with the scheduling the event loop gives: time passes, every
\* sleep that is over is resumed, every provider call comes back; the
\* caller's timeout and the arrival of queries are left free.
FairSpec ==
    /\ Spec
    /\ WF_vars(Tick)
    /\ \A t \in Tasks :
          WF_vars(EnterProvider(t) \/ CheckRateLimit(t) \/ WakeRateLimit(t)
                  \/ WakeBackoff(t) \/ CompleteOk(t)
                  \/ (\E exc \in ErrorKinds : CompleteErr(t, exc)))

\* The extractor applied to every text within the bound.
ExtractSpecInit == GatewayQuiet /\ ExtractInit /\ ExcelIdle /\ CogIdle
ExtractSpec == ExtractSpecInit /\ [][ExtractNext]_vars

\* The excel engine applied to every structure and every uploaded workbook
\* within the bounds.
ExcelSpecInit == GatewayQuiet /\ ExtractorIdle /\ ExcelInit /\ CogIdle
ExcelSpec == ExcelSpecInit /\ [][ExcelNext]_vars

\* The two commands, run concurrently.
CogSpecInit == GatewayQuiet /\ ExtractorIdle /\ ExcelIdle /\ CogIdle
CogSpec == CogSpecInit /\ [][CogNext]_vars

\* ================================================================ claims

\* ---- C1
Returned(t) == pc[t] = "done" /\ outcome[t] = "returned"

\* C1: whatever the providers' availability, whatever each completion call
\* does (text or any exception) and whatever prefer_provider is, a query
\* whose caller did not cancel it never ends by raising: when it has ended
\* it has returned an AIResponse of one of the two providers with a boolean
\* success flag, and until then it is at a step the event loop can resume.
C1_QueryNeverRaises ==
    \A t \in Tasks :
        /\ (pc[t] = "done" /\ ~hist[t].cancelled) =>
               /\ outcome[t] = "returned"
               /\ result[t].success \in BOOLEAN
               /\ result[t].provider \in Providers
        /\ pc[t] \in {"idle", "enter", "ratecheck", "rlsleep", "inflight",
                      "backoff", "done"}
        /\ (pc[t] = "done") = (outcome[t] # "pending")
        /\ pc[t] = "enter" => ENABLED EnterProvider(t)
        /\ pc[t] = "ratecheck" => ENABLED CheckRateLimit(t)
        /\ pc[t] = "inflight" =>
               ENABLED CompleteOk(t) /\ \A exc \in ErrorKinds : ENABLED CompleteErr(t, exc)
        /\ (pc[t] = "rlsleep" /\ sleepLeft[t] = 0) => ENABLED WakeRateLimit(t)
        /\ (pc[t] = "backoff" /\ sleepLeft[t] = 0) => ENABLED WakeBackoff(t)

\* C1 witness: a query returned a failed response after all 2 * MaxRetries
\* completion calls raised.
C1_Witness ==
    \E t \in Tasks :
        /\ Returned(t) /\ ~result[t].success
        /\ Len(hist[t].diags) = 2 * MaxRetries

\* ---- C2
\* The fallback provider's completion call is the one that succeeded (so
\* every call of the primary, if any was made, raised).
FailedOver(t) == Returned(t) /\ hist[t].succBy = FallbackOf(prefer[t])

\* C2: when the primary's calls all fail and the fallback provider succeeds,
\* the returned response is a success of the fallback provider and the
\* query has moved stats['fallbacks'] by exactly 1 (the counter at return is
\* its value at the call, plus what concurrent queries added, plus 1).
C2_Failover ==
    \A t \in Tasks :
        FailedOver(t) =>
            /\ result[t].success
            /\ result[t].provider = FallbackOf(prefer[t])
            /\ hist[t].fbDelta = 1

\* C2 witness: Groq preferred, its MaxRetries calls raised, Gemini answered.
C2_Witness ==
    \E t \in Tasks :
        /\ FailedOver(t)
        /\ prefer[t] = "groq"
        /\ hist[t].calls["groq"] = MaxRetries
        /\ result[t].provider = "gemini"

\* ---- C3
Young(ts) == {i \in DOMAIN ts : ts[i] < WINDOW}
CallsIssued(t) == hist[t].calls["gemini"] + hist[t].calls["groq"]

\* C3: at most AI_RATE_LIMIT recorded timestamps are younger than the window
\* (the list itself never grows past the limit), and every completion call a
\* task issued was preceded by an append of its own timestamp.
C3_RateLimitSafety ==
    /\ Cardinality(Young(request_timestamps)) <= AI_RATE_LIMIT
    /\ Len(request_timestamps) <= AI_RATE_LIMIT
    /\ \A t \in Tasks :
           /\ CallsIssued(t) <= hist[t].slots
           /\ pc[t] = "inflight" => hist[t].slots >= 1

\* C3 witness: the window is full, one task has a call in flight and the
\* other one is held back by the limiter.
C3_Witness ==
    \E t, u \in Tasks :
        /\ pc[t] = "inflight" /\ pc[u] = "rlsleep"
        /\ Cardinality(Young(request_timestamps)) = AI_RATE_LIMIT

\* ---- C4
Throttled(t) == pc[t] \in {"ratecheck", "rlsleep"}

\* C4: a request that finds the window full is not dropped and not answered
\* with a failure: from the limiter's wait it only goes on waiting or issues
\* its provider call (unless its caller cancels it); and as time advances
\* every waiting request, also when several wait at once, is admitted and
\* issues its call.
C4_RateLimitLiveness ==
    /\ [][\A t \in Tasks :
            Throttled(t) =>
                \/ Throttled(t)'
                \/ pc'[t] = "inflight"
                \/ hist'[t].cancelled]_vars
    /\ \A t \in Tasks :
           (pc[t] = "rlsleep") ~> (pc[t] = "inflight" \/ hist[t].cancelled)

\* C4 witness: every task waits in _wait_for_rate_limit at the same time.
C4_Witness == \A t \in Tasks : pc[t] = "rlsleep" /\ sleepLeft[t] = 1

\* ---- C5
\* C5: a provider's completion call is invoked at most MaxRetries times in a
\* query; the backoff sleeps requested after its failed attempts are 1 s then
\* 2 s; a success ends the query at once; a response is returned with no
\* sleep after the provider's last attempt, and a failed response only after
\* MaxRetries calls of every available provider.
C5_RetryBudget ==
    \A t \in Tasks :
        /\ \A p \in Providers :
               /\ hist[t].calls[p] <= MaxRetries
               /\ hist[t].delays[p] \in {<<>>, <<1>>, <<1, 2>>}
               /\ Len(hist[t].delays[p]) <= hist[t].calls[p]
               /\ Returned(t) /\ hist[t].calls[p] > 0 =>
                      Len(hist[t].delays[p]) = hist[t].calls[p] - 1
               /\ Returned(t) /\ ~result[t].success /\ Available(p) =>
                      hist[t].calls[p] = MaxRetries
        /\ hist[t].succ >= 1 => Returned(t) /\ result[t].success /\ hist[t].succ = 1
        /\ pc[t] = "backoff" =>
               /\ Len(hist[t].delays[provider[t]]) = attempt[t] + 1
               /\ sleepLeft[t] <= hist[t].delays[provider[t]][attempt[t] + 1]
               /\ hist[t].calls[provider[t]] = attempt[t] + 1
        /\ pc[t] = "inflight" => hist[t].calls[provider[t]] = attempt[t] + 1

\* C5 witness: a provider was called MaxRetries times with the sleeps 1 s and
\* 2 s in between, and the query returned a failed response.
C5_Witness ==
    \E t \in Tasks, p \in Providers :
        /\ Returned(t) /\ ~result[t].success
        /\ hist[t].calls[p] = MaxRetries
        /\ hist[t].delays[p] = <<1, 2>>

\* ---- C6
\* C6 (as claimed): the attempt that follows a failure with the "model
\* unavailable or deprecated" signal calls a model other than the failed one.
C6_ModelRotation ==
    [][\A t \in Tasks :
          (pc[t] = "ratecheck" /\ pc'[t] = "inflight"
              /\ hist[t].lastKind = "ModelUnavailable")
          => hist'[t].model # hist[t].model]_vars

\* ---- C7
\* C7 (as claimed): a caller's timeout that fires during a query is handled
\* as a failed attempt, so the query goes on and does not end by raising.
C7_TimeoutAsProviderError ==
    \A t \in Tasks : hist[t].cancelled => outcome[t] # "raised"

\* ---- C8
\* The diagnostics inside a both-failed error text, in text order.
ErrorTexts(r) == <<r.error[1][2], r.error[2][2]>>
TerminalFailure(t) == Returned(t) /\ ~result[t].success

\* The one diagnostic a provider's _query_* reports: the text of its last
\* failed attempt, or "not available".
ReportedBy(t, p) ==
    LET own == SelectSeq(hist[t].diags, LAMBDA d : d[1] = p)
    IN IF own = <<>> THEN <<p, "not available">> ELSE own[Len(own)]

\* Every diagnostic a provider produced in the query: the texts of all its
\* failed attempts, or its "not available" text if it was never called.
AttemptTexts(t, p) ==
    LET own == SelectSeq(hist[t].diags, LAMBDA d : d[1] = p)
    IN IF own = <<>> THEN << <<p, "not available">> >> ELSE own

\* C8 (as claimed): the error text of a terminal failure is the
\* concatenation of the texts of every failed attempt of the query.
C8_AllAttemptsReported ==
    \A t \in Tasks :
        TerminalFailure(t) =>
            ErrorTexts(result[t]) = AttemptTexts(t, PrimaryOf(prefer[t]))
                                    \o AttemptTexts(t, FallbackOf(prefer[t]))

\* C8 (amended): a terminal failure is a returned value with success false
\* whose error text holds one diagnostic per provider, the primary's then
\* the fallback's: the text of that provider's last failed attempt, or its
\* "not available" text.
C8_TerminalFailure ==
    \A t \in Tasks :
        /\ (Returned(t) /\ hist[t].succ = 0) => ~result[t].success
        /\ TerminalFailure(t) =>
               /\ Len(result[t].error) = 2
               /\ ErrorTexts(result[t]) =
                      <<ReportedBy(t, PrimaryOf(prefer[t])),
                        ReportedBy(t, FallbackOf(prefer[t]))>>

\* C8 witness: a terminal failure after more failed attempts than the error
\* text has room for.
C8_Witness ==
    \E t \in Tasks :
        /\ TerminalFailure(t)
        /\ prefer[t] = "groq"
        /\ Len(hist[t].diags) > 2

\* ---- C9
\* The methods that return a value for the text, by the candidates the code
\* computes.
Succeeding(txt) ==
    IF txt = <<>> THEN {} ELSE {m \in 1..5 : MethodSucceeds(m, Strip(txt))}
FirstN(n) == [i \in 1..n |-> i]

\* C9: the methods are tried in the order 1, 2, 3, 4, 5; the call returns
\* the value of the first one whose parse succeeds and tries none after it;
\* it raises exactly when no method succeeds.
C9_ParseWaterfall ==
    extracted.kind # "none" =>
        IF Succeeding(text) = {}
        THEN /\ extracted = ExtractionError
             /\ tried = (IF text = <<>> THEN <<>> ELSE FirstN(5))
        ELSE LET m == SetMin(Succeeding(text))
             IN /\ extracted = Extracted(MethodValue(m, Strip(text)))
                /\ tried = FirstN(m)

\* C9 witness: method 4 returned a value after methods 1 to 3 failed, and
\* method 5, which would have returned another value, was not tried.
C9_Witness ==
    /\ extracted.kind = "value"
    /\ tried = FirstN(4)
    /\ 5 \in Succeeding(text)
    /\ MethodValue(5, Strip(text)) # extracted.value

\* ---- C10
\* The index of the brace that closes the one opened before position i,
\* counting braces only; 0 if it is never closed.
RECURSIVE BraceClose(_, _, _)
BraceClose(s, i, depth) ==
    IF i > Len(s) THEN 0
    ELSE IF s[i] = "{" THEN BraceClose(s, i + 1, depth + 1)
    ELSE IF s[i] = "}" THEN (IF depth = 1 THEN i ELSE BraceClose(s, i + 1, depth - 1))
    ELSE BraceClose(s, i + 1, depth)

\* The first balanced {...} span of s: from the leftmost open brace to the
\* brace that closes it.
FirstBalancedObject(s) ==
    LET opens == {i \in DOMAIN s : s[i] = "{"}
    IN IF opens = {} THEN NoMatch
       ELSE LET i == SetMin(opens)
                j == BraceClose(s, i + 1, 1)
            IN IF j = 0 THEN NoMatch ELSE Match(Slice(s, i, j))

\* C10 (as claimed): when methods 1 to 3 fail and the first balanced {...}
\* span of the text is valid JSON, the call returns that object, whatever
\* follows the span.
C10_FirstBalancedObject ==
    LET s == Strip(text)
        span == FirstBalancedObject(s)
    IN (/\ extracted.kind # "none"
        /\ Succeeding(text) \cap {1, 2, 3} = {}
        /\ span.found /\ Parses(span.cand))
       => extracted = Extracted(Loads(span.cand))

\* ---- C11
\* The positions of the fences of s, in order.
FenceSeq(s) == SelectSeq([i \in DOMAIN s |-> i], LAMBDA i : s[i] = "FENCE")

\* The fenced blocks of s: the fences pair up in order, an opening fence
\* with the next fence as its close.
Blocks(s) ==
    LET f == FenceSeq(s)
    IN [k \in 1..(Len(f) \div 2) |-> [open |-> f[2 * k - 1], close |-> f[2 * k]]]

\* A block is tagged when the tag follows its opening fence directly.
Tagged(s, b) == b.open + 1 < b.close /\ s[b.open + 1] = "json"

\* The body of the first fenced block of s that carries no tag.
FirstUntaggedBlock(s) ==
    LET bs == Blocks(s)
        un == {k \in DOMAIN bs : ~Tagged(s, bs[k])}
    IN IF un = {} THEN NoMatch
       ELSE LET b == bs[SetMin(un)]
            IN Match(Strip(Slice(s, b.open + 1, b.close - 1)))

\* C11 (as claimed): whenever methods 1 and 2 have failed and method 3 is
\* tried on a text that has an untagged fenced block, the candidate method 3
\* hands to the parser is the body of the first untagged fenced block, also
\* when a tagged block precedes it.
C11_FirstUntaggedFence ==
    LET s == Strip(text)
    IN (/\ Len(tried) >= 3
        /\ tried[3] = 3
        /\ FirstUntaggedBlock(s).found)
       => Candidate(3, s) = FirstUntaggedBlock(s)

\* ---- C13
\* create_excel has ended.
CreateEnded == upos = 0 /\ created.kind # "none"
\* The build has to fail: no sheets, or a sheet whose rendering raises.
MustFail(st) ==
    \/ SheetsOf(st) = <<>>
    \/ \E i \in DOMAIN SheetsOf(st) : CreateSheetRaises(SheetsOf(st)[i])

\* C13: create_excel raises and leaves no file at its output path when the
\* sheets list is missing or empty or the rendering of any sheet raises; no
\* file is there while sheets are still being rendered; and a file that was
\* written has one sheet for each SheetSpec of the structure.
C13_AllOrNothing ==
    /\ (CreateEnded /\ MustFail(structure))
          => (created.kind = "raised" /\ ~fs["excel"].exists)
    /\ upos # 0 => ~fs["excel"].exists
    /\ fs["excel"].exists
          => /\ created = Created("returned", "excel")
             /\ ~MustFail(structure)
             /\ Len(fs["excel"].sheets) = Len(SheetsOf(structure))

\* A build of two sheets whose first sheet rendered and whose second raised.
C13_Witness ==
    /\ CreateEnded
    /\ created.kind = "raised"
    /\ Len(SheetsOf(structure)) = 2
    /\ ~CreateSheetRaises(SheetsOf(structure)[1])
    /\ CreateSheetRaises(SheetsOf(structure)[2])
    /\ ~fs["excel"].exists

\* ---- C14
\* The sheets create_excel has rendered so far, and the sheets of the file
\* it wrote, as load_workbook gives them back.
BuiltSheets == IF upos # 0 THEN wb ELSE <<>>
ArtifactSheets ==
    IF fs["excel"].exists THEN LoadWorkbook(fs["excel"]) ELSE <<>>

\* The address is written by the headers or by the data grid of the sheet.
WrittenByGrid(config, a) ==
    \/ a[2] = 1 /\ \E c \in DOMAIN config.headers : a[1] = get_column_letter(c)
    \/ \E r \in DOMAIN config.data : \E c \in DOMAIN config.data[r] :
          a = DataAddr(config, r, c)

\* C14: in every rendered sheet, in memory and in the written file, each
\* address of the formulas map holds the map's expression, whether the
\* headers or the grid wrote that address before or not.
C14_FormulasMapWins ==
    /\ \A i \in DOMAIN BuiltSheets :
          \A k \in DOMAIN SheetsOf(structure)[i].formulas :
             LET e == SheetsOf(structure)[i].formulas[k]
             IN BuiltSheets[i].cells[e.addr].value = e.value
    /\ \A i \in DOMAIN ArtifactSheets :
          \A k \in DOMAIN SheetsOf(structure)[i].formulas :
             LET e == SheetsOf(structure)[i].formulas[k]
             IN /\ ArtifactSheets[i].cells[e.addr].value = e.value
                /\ ArtifactSheets[i].cells[e.addr].data_type = "f"

\* A written file of a sheet whose map names an address the grid filled
\* with another value.
C14_Witness ==
    /\ ArtifactSheets # <<>>
    /\ \E k \in DOMAIN SheetsOf(structure)[1].formulas :
          LET config == SheetsOf(structure)[1]
              a == config.formulas[k].addr
          IN /\ a[2] >= StartRow(config)
             /\ WrittenByGrid(config, a)
             /\ config.data[a[2] - StartRow(config) + 1][1] = PyNum(1)
             /\ a[1] = "A"

\* ---- C15
\* Column col is listed in the sequence cols.
Listed(cols, col) == \E i \in DOMAIN cols : cols[i] = col

\* The address holds a cell of the body: the data grid wrote it.
BodyAddr(config, a) ==
    \E r \in DOMAIN config.data : \E c \in DOMAIN config.data[r] :
       a = DataAddr(config, r, c)
\* The address holds a header.
HeaderAddr(config, a) ==
    a[2] = 1 /\ \E c \in DOMAIN config.headers : a[1] = get_column_letter(c)

\* Every non-empty body cell of the listed columns has the format and no
\* header cell has it.
FormatsDeclared(sheet, config, cols, fmt) ==
    \A a \in Addrs :
       Listed(cols, a[1]) =>
          /\ (BodyAddr(config, a) /\ sheet.cells[a].value # PyNone)
                => sheet.cells[a].number_format = fmt
          /\ HeaderAddr(config, a) => sheet.cells[a].number_format # fmt

\* C15 (as claimed): in the written file every non-empty body cell of a
\* column listed in currency_columns, percentage_columns or date_columns has
\* that list's number format and no header cell has it, with headers (body
\* from row 2) and without (body from row 1).
C15_DeclaredNumberFormats ==
    \A i \in DOMAIN ArtifactSheets :
       LET config == SheetsOf(structure)[i]
           sheet == ArtifactSheets[i]
       IN /\ FormatsDeclared(sheet, config, config.formatting.currency_columns, CurrencyFormat)
          /\ FormatsDeclared(sheet, config, config.formatting.percentage_columns, PercentFormat)
          /\ FormatsDeclared(sheet, config, config.formatting.date_columns, DateFormat)

\* ---- C16
\* read_excel has returned for the file create_excel wrote.
ReadBack ==
    /\ created = Created("returned", "excel")
    /\ readResult.kind = "returned"
    /\ readResult.file_name = "excel"

\* A literal: a number, or a text that does not begin with "=".
Literal(v) == v.type = "num" \/ (v.type = "str" /\ ~StartsWithEq(v))

\* The formulas map of the sheet names the address.
InFormulas(config, a) == \E k \in DOMAIN config.formulas : config.formulas[k].addr = a

\* The value the returned grid holds at a coordinate.
GridAt(grid, a) == grid[a[2]][ColIndex(a[1])]

\* C16 (as claimed): create_excel followed by read_excel of the file gives
\* the sheet names of the structure in declaration order, and a grid that
\* holds every literal of the first sheet's data, unless the formulas map
\* overwrote it, with exactly the value of the structure at its row and
\* column of the sheet.
C16_LiteralRoundTrip ==
    ReadBack =>
       /\ readResult.sheets =
             [i \in DOMAIN SheetsOf(structure) |-> Title(SheetsOf(structure)[i].name, 0)]
       /\ LET config == SheetsOf(structure)[1]
          IN \A r \in DOMAIN config.data : \A c \in DOMAIN config.data[r] :
                LET a == DataAddr(config, r, c)
                IN (Literal(config.data[r][c]) /\ ~InFormulas(config, a))
                      => /\ a[2] \in DOMAIN readResult.data
                         /\ ColIndex(a[1]) \in DOMAIN readResult.data[a[2]]
                         /\ GridAt(readResult.data, a) = config.data[r][c]

\* ---- C17
\* The value _create_sheet leaves at an address of the sheet: the one of the
\* formulas map if the map names the address, else the one of the grid.
WrittenValue(config, a) ==
    IF InFormulas(config, a)
    THEN config.formulas[CHOOSE k \in DOMAIN config.formulas : config.formulas[k].addr = a].value
    ELSE IF BodyAddr(config, a)
    THEN config.data[a[2] - StartRow(config) + 1][ColIndex(a[1])]
    ELSE PyNone

\* C17 (as claimed): every cell create_excel wrote from a string beginning
\* with "=", in the grid or in the formulas map, is returned by read_excel
\* as that same string, with its one leading "=".
C17_FormulaRoundTrip ==
    ReadBack =>
       LET config == SheetsOf(structure)[1]
       IN \A a \in Addrs :
             StartsWithEq(WrittenValue(config, a))
                => /\ a[2] \in DOMAIN readResult.data
                   /\ ColIndex(a[1]) \in DOMAIN readResult.data[a[2]]
                   /\ GridAt(readResult.data, a) = WrittenValue(config, a)

\* ---- C18
\* read_excel has returned for the file at path p.
ReadOf(p) == readResult.kind = "returned" /\ readResult.file_name = p /\ fs[p].exists

\* The records of the returned error list for coordinate a.
RecordsAt(a) == SelectSeq(readResult.errors, LAMBDA e : e.cell = a)

\* What read_excel has to report for a cell of value v at coordinate a:
\* one record with the coordinate, the token and its cause when v is one of
\* the 8 tokens, no record otherwise.
Reported(a, v) ==
    IF IsErrorToken(v)
    THEN /\ Len(RecordsAt(a)) = 1
         /\ RecordsAt(a)[1].error_type = v.str[1]
         /\ RecordsAt(a)[1].message = _get_error_message(v.str[1])
    ELSE RecordsAt(a) = <<>>

Repaired == fixResult.kind = "returned" /\ fixResult.auto_fix

\* The cells of the active sheet of the file at path p.
ActiveCells(p) == fs[p].sheets[fs[p].active].cells

\* A formula cell of a file whose result is the error token.
FormulaWithResult(fc, token) == fc.t = "f" /\ fc.v = PyStr(<<token>>)

\* The formula cell holds its original expression inside IFERROR with the
\* fallback.
WrappedIn(fc, original, fallback) ==
    fc.t = "f" /\ fc.formula = <<"IFERROR(">> \o original \o <<", ", fallback, ")">>

\* C19 (as claimed): after fix_excel_errors, in the file at the returned
\* path every formula cell of the inspected sheet whose result is #DIV/0!
\* holds its expression wrapped in IFERROR with fallback 0, and every one
\* whose result is #N/A holds it wrapped with the dash as fallback.
C19_RepairOfFormulaCells ==
    Repaired =>
       \A a \in Addrs :
          LET src == ActiveCells(fixResult.source)[a]
              out == ActiveCells(fixResult.path)[a]
          IN /\ FormulaWithResult(src, "#DIV/0!") => WrappedIn(out, src.formula, "0")
             /\ FormulaWithResult(src, "#N/A") => WrappedIn(out, src.formula, "\"-\"")

\* ---- C20
\* The cell at coordinate a of sheet i of the source is a formula cell that
\* the inspection flagged #DIV/0! or #N/A.
FlaggedFormula(i, a) ==
    /\ i = fs[fixResult.source].active
    /\ LoadWorkbook(fs[fixResult.source])[i].cells[a].data_type = "f"
    /\ \E k \in DOMAIN fixResult.errors :
          /\ fixResult.errors[k].cell = a
          /\ fixResult.errors[k].error_type \in {"#DIV/0!", "#N/A"}

\* C20: after fix_excel_errors every cell of the source that is not a
\* formula cell flagged #DIV/0! or #N/A has, in the file at the returned
\* path, the content it has in the source (value and type as load_workbook
\* gives them), in every sheet; literal cells holding an error token and
\* cells flagged with the other six kinds are among them.
C20_RepairFrame ==
    Repaired =>
       LET src == LoadWorkbook(fs[fixResult.source])
           out == LoadWorkbook(fs[fixResult.path])
       IN /\ DOMAIN out = DOMAIN src
          /\ \A i \in DOMAIN src : \A a \in Addrs :
                ~FlaggedFormula(i, a)
                   => /\ out[i].cells[a].value = src[i].cells[a].value
                      /\ out[i].cells[a].data_type = src[i].cells[a].data_type

\* A repaired file was written for a sheet with a literal #DIV/0! cell, which
\* was flagged, next to a formula cell whose result is #REF!.
C20_Witness ==
    /\ Repaired
    /\ fixResult.source = "upload"
    /\ fixResult.path = "fixed"
    /\ ActiveCells("upload")[<<"A", 1>>] = LiteralCell("e", PyStr(<<"#DIV/0!">>))
    /\ ActiveCells("upload")[<<"A", 2>>] = FormulaCell(<<"A1+B1">>, PyStr(<<"#REF!">>))
    /\ Len(fixResult.errors) = 1
    /\ ActiveCells("fixed")[<<"A", 1>>] = LiteralCell("e", PyStr(<<"#DIV/0!">>))

\* ---- C21
\* The step is a call of fix_excel_errors(path, auto_fix) that returns.
FixReturns(path, auto_fix) ==
    /\ fixResult'.kind = "returned"
    /\ fixResult'.source = path
    /\ fixResult'.auto_fix = auto_fix
    /\ FixExcelErrors(path, auto_fix)

Loadable == {p \in Paths : fs[p].exists /\ ~fs[p].oversize}

\* A sheet holds a formula cell.
HasFormulaCell(sheet) == \E a \in Addrs : sheet.cells[a].data_type = "f"

\* The sum of the numbers q[1], ..., q[n].
RECURSIVE SumTo(_, _)
SumTo(q, n) == IF n = 0 THEN 0 ELSE q[n] + SumTo(q, n - 1)

\* C26: for every workbook _get_workbook_stats gives total_sheets = the
\* number of sheets, total_rows = the sum of the sheets' max_row,
\* total_columns = the largest max_column, and has_formulas exactly when some
\* cell of some sheet is a formula, also for the sheets after the one where
\* the first formula is found.
C26_WorkbookStats ==
    \A p \in Loadable :
       LET sheets == LoadWorkbook(fs[p])
           given == _get_workbook_stats(sheets)
       IN /\ given.total_sheets = Len(sheets)
          /\ given.total_rows = SumTo([i \in DOMAIN sheets |-> max_row(sheets[i])], Len(sheets))
          /\ \A i \in DOMAIN sheets : given.total_columns >= max_column(sheets[i])
          /\ \E i \in DOMAIN sheets : given.total_columns = max_column(sheets[i])
          /\ given.has_formulas <=> \E i \in DOMAIN sheets : HasFormulaCell(sheets[i])

\* read_excel gave the statistics of a workbook whose first sheet holds a
\* formula and whose second sheet is larger.
C26_Witness ==
    /\ readResult.kind = "returned"
    /\ readResult.file_name = "upload"
    /\ Len(fs["upload"].sheets) = 2
    /\ HasFormulaCell(LoadWorkbook(fs["upload"])[1])
    /\ max_row(LoadWorkbook(fs["upload"])[2]) = 2
    /\ readResult.stats.total_rows = 3
    /\ readResult.stats.total_columns = 2
    /\ readResult.stats.has_formulas

\* ---- C27
\* What the task's query has added to stats['fallbacks'] so far.
Escalations(t) ==
    IF pc[t] = "idle" THEN 0
    ELSE IF pc[t] = "done" THEN hist[t].fbDelta
    ELSE stats["fallbacks"] - hist[t].fbBase

\* The query has turned to its fallback provider.
OnFallback(t) ==
    \/ hist[t].calls[FallbackOf(prefer[t])] > 0
    \/ pc[t] \notin {"idle", "done"} /\ provider[t] = FallbackOf(prefer[t])

\* The failed attempts of provider p in the task's query.
FailedAttempts(t, p) == Len(SelectSeq(hist[t].diags, LAMBDA d : d[1] = p))

\* C27: a query turns to the fallback provider only after the primary
\* returned a failed response (all MaxRetries attempts failed, or the
\* provider is unavailable); the fallback gets at most one sequence of
\* MaxRetries attempts; a query whose primary succeeded never called the
\* fallback and added nothing to stats['fallbacks']; a query adds at most 1.
C27_FailoverOrdering ==
    \A t \in Tasks :
        ~hist[t].cancelled =>
            LET prim == PrimaryOf(prefer[t])
                fb == FallbackOf(prefer[t])
            IN /\ Escalations(t) \in {0, 1}
               /\ Escalations(t) = 1 <=> OnFallback(t) \/ TerminalFailure(t)
               /\ OnFallback(t) =>
                     /\ ~response[t].success
                     /\ response[t].provider = prim
                     /\ hist[t].succBy # prim
                     /\ IF Available(prim)
                        THEN /\ hist[t].calls[prim] = MaxRetries
                             /\ FailedAttempts(t, prim) = MaxRetries
                        ELSE hist[t].calls[prim] = 0
               /\ hist[t].calls[fb] <= MaxRetries
               /\ hist[t].succBy = prim =>
                     /\ hist[t].calls[fb] = 0
                     /\ Escalations(t) = 0

\* Both queries escalated, and one of them has the last attempt of its
\* fallback provider in flight.
C27_Witness ==
    \E t \in Tasks :
        /\ pc[t] = "inflight"
        /\ provider[t] = FallbackOf(prefer[t])
        /\ hist[t].calls[provider[t]] = MaxRetries
        /\ hist[t].calls[PrimaryOf(prefer[t])] = MaxRetries
        /\ Escalations(t) = 1
        /\ stats["fallbacks"] = 2

\* ---- C28
\* The step issues a completion call of the task.
IssuesCall(t) == CallsIssued(t)' > CallsIssued(t)

\* The step is the task's _query_* call on a provider marked unavailable.
EntersUnavailable(t) ==
    pc[t] = "enter" /\ ~Available(provider[t]) /\ pc'[t] # pc[t]

\* C28: every completion call a task issues, first attempt, retry or
\* attempt on the fallback provider, comes with exactly one timestamp
\* appended by that task in the same step, and no timestamp is appended
\* without a call; _query_* on an unavailable provider gives the "not
\* available" failure and appends no timestamp, issues no call and leaves
\* the request and error counters alone; a check that finds the window full
\* appends nothing.
C28_OneSlotPerAttempt ==
    /\ [](\A t \in Tasks :
             ~hist[t].cancelled =>
                /\ hist[t].slots = CallsIssued(t)
                /\ \A p \in Providers : ~Available(p) => hist[t].calls[p] = 0)
    /\ [][\A t \in Tasks :
             /\ IssuesCall(t) =>
                   /\ CallsIssued(t)' = CallsIssued(t) + 1
                   /\ hist'[t].slots = hist[t].slots + 1
                   /\ request_timestamps' = Append(Prune(request_timestamps), 0)
             /\ hist'[t].slots > hist[t].slots => IssuesCall(t)
             /\ (Len(request_timestamps') > Len(request_timestamps)) =>
                   \E u \in Tasks : IssuesCall(u)
             /\ EntersUnavailable(t) =>
                   /\ request_timestamps' = request_timestamps
                   /\ hist'[t].slots = hist[t].slots
                   /\ CallsIssued(t)' = CallsIssued(t)
                   /\ \A p \in Providers :
                         /\ stats'[RequestsKey(p)] = stats[RequestsKey(p)]
                         /\ stats'[ErrorsKey(p)] = stats[ErrorsKey(p)]
                   /\ IF provider[t] = PrimaryOf(prefer[t])
                      THEN response'[t] = NotAvailable(provider[t])
                      ELSE /\ pc'[t] = "done"
                           /\ ~result'[t].success
                           /\ result'[t].error[2][2] = NotAvailable(provider[t]).error
             /\ (pc[t] = "ratecheck" /\ pc'[t] = "rlsleep") =>
                   /\ request_timestamps' = Prune(request_timestamps)
                   /\ Len(request_timestamps') = AI_RATE_LIMIT
                   /\ hist'[t] = hist[t]]_vars

\* A task holds three slots for the three calls of its primary while its
\* fallback provider is unavailable, and the window is full.
C28_Witness ==
    \E t \in Tasks :
        /\ pc[t] = "inflight"
        /\ hist[t].slots = MaxRetries
        /\ hist[t].calls[provider[t]] = MaxRetries
        /\ ~Available(Other(provider[t]))
        /\ Len(request_timestamps) = AI_RATE_LIMIT

\* ---- C29
\* The diagnostic that follows the label in a both-failed error text.
Labelled(r, label) ==
    LET at == {i \in DOMAIN r.error : r.error[i][1] = label}
    IN r.error[CHOOSE i \in at : TRUE][2]

\* C29 (as claimed): in the response of a query whose providers both failed
\* the text after 'Gemini:' is the diagnostic the Gemini provider reported
\* and the text after 'Groq:' the one the Groq provider reported, whichever
\* provider was tried first.
C29_DiagnosticAttribution ==
    \A t \in Tasks :
        TerminalFailure(t) =>
            /\ Labelled(result[t], "Gemini:") = ReportedBy(t, "gemini")
            /\ Labelled(result[t], "Groq:") = ReportedBy(t, "groq")

\* ---- C22
\* The run is a !buat command / a !perbaiki command.
IsCreate(r) == cmd[r].kind = "create"
IsFix(r) == cmd[r].kind = "fix"

\* Successful responses that give no dict with a non-empty "sheets" list.
Unusable == {"unparsable", "no_sheets", "sheet", "list", "number"}

\* C22 (as claimed): in !buat, for a successful response whose text gives no
\* structure with a non-empty sheets list, the default structure is the one
\* built, what is delivered is the workbook of the default structure, and
\* the command ends in the error outcome only if Discord fails the delivery.
C22_Degradation ==
    \A r \in Runs :
        (IsCreate(r) /\ cmd[r].ai = "ok" /\ cmd[r].parsed \in Unusable) =>
            /\ cmd[r].exc \in {"none", "HTTPException"}
            /\ cmd[r].structure = create_default_structure
            /\ cmd[r].outcome = "delivered" => cmd[r].sent.what = create_default_structure

\* ---- C23
CreateOrder == <<"PROMPT", "EXTRACT", "BUILD", "DELIVER", "PURGE">>
IsPrefix(s, q) == Len(s) <= Len(q) /\ s = SubSeq(q, 1, Len(s))

\* C23 (as claimed): a !buat run goes through prompting, extracting,
\* building, delivery and purge in this order, and neither a failed provider
\* query nor a failed build ends it in the error outcome: a run that has
\* ended with either has delivered an artifact.
C23_CreateStateMachine ==
    \A r \in Runs :
        IsCreate(r) =>
            /\ IsPrefix(cmd[r].trace, CreateOrder)
            /\ (cmd[r].pc = "done" /\ (cmd[r].ai = "failed" \/ BuildRaises(cmd[r].structure)))
                  => /\ cmd[r].outcome = "delivered"
                     /\ cmd[r].trace = CreateOrder

\* ---- C24
\* The run has started and not ended.
Running(r) == cmd[r].pc \notin {"idle", "done"}
\* The paths the run writes.
Written(r) == {cmd[r].file_path, cmd[r].fixed_path} \ {NoPath}

\* C24 (as claimed): two runs executing at the same time write distinct
\* paths, and the file a run opens for delivery is one it created itself.
C24_ExclusiveOwnership ==
    \A r, u \in Runs :
        /\ (r # u /\ Running(r) /\ Running(u)) => Written(r) \cap Written(u) = {}
        /\ cmd[r].handle # NoEntry => cmd[r].handle[1] = r

\* ---- C30
FixOrders == {<<"INSPECT", "REPAIR", "DELIVER", "PURGE">>, <<"INSPECT", "PURGE">>}

\* C30 (as claimed): the steps of a run happen in the order prompt or
\* inspect, extract or repair, build, deliver, purge, and when the command
\* has returned, on whatever path, no file the run created or downloaded is
\* left in the temp directory.
C30_PurgeOnEveryPath ==
    \A r \in Runs :
        /\ IsCreate(r) => IsPrefix(cmd[r].trace, CreateOrder)
        /\ IsFix(r) => \E o \in FixOrders : IsPrefix(cmd[r].trace, o)
        /\ cmd[r].pc = "done" =>
              \A p \in Written(r) : temp[p] = NoEntry \/ temp[p][1] # r

\* ---- C25
\* Another !perbaiki run used one of the run's paths.
Collided(r) ==
    \E u \in Runs \ {r} :
        /\ IsFix(u)
        /\ \/ cmd[u].file_path = cmd[r].file_path
           \/ cmd[u].fixed_path # NoPath /\ cmd[u].fixed_path = cmd[r].fixed_path

\* C25: in !perbaiki the narrative call, successful or failed, is followed by
\* the repair; a failed narrative never is the command's error; what is
\* delivered is the repaired copy of the run's upload whether the narrative
\* succeeded or not (when no other run wrote the same paths); only the
\* suggestions field of the embed depends on the narrative.
C25_NarrativeDecoupling ==
    \A r \in Runs :
        (IsFix(r) /\ cmd[r].narr # "none") =>
            /\ cmd[r].pc \in {"ready", "delivered", "done"}
            /\ cmd[r].trace[2] = "REPAIR"
            /\ cmd[r].exc \in {"none", "FileNotFoundError", "HTTPException"}
            /\ cmd[r].exc = "FileNotFoundError" => Collided(r)
            /\ cmd[r].suggestions <=> (cmd[r].narr = "ok" /\ cmd[r].exc # "FileNotFoundError")
            /\ cmd[r].exc # "FileNotFoundError" => cmd[r].fixed_path # NoPath
            /\ cmd[r].outcome = "delivered" =>
                  \/ cmd[r].sent = FixedCopy(cmd[r].upload)
                  \/ Collided(r)

\* Two !perbaiki runs delivered the repaired copies of their uploads, one
\* with the narrative's suggestions and one after the narrative failed.
C25_Witness ==
    \E r, u \in Runs :
        /\ IsFix(r) /\ IsFix(u)
        /\ cmd[r].narr = "failed" /\ cmd[u].narr = "ok"
        /\ cmd[r].outcome = "delivered" /\ cmd[u].outcome = "delivered"
        /\ cmd[r].sent = FixedCopy(cmd[r].upload)
        /\ cmd[u].sent = FixedCopy(cmd[u].upload)
        /\ ~cmd[r].suggestions /\ cmd[u].suggestions
        /\ ~Collided(r)

====
